---------------------------- MODULE Spec2Model ----------------------------
(***************************************************************************)
(* A model of the hindu-calendar engine (rust/src): Julian-Day conversion, *)
(* the Ephemeris facade, tithi, masa, panchang and the regional solar      *)
(* calendars.                                                              *)
(*                                                                         *)
(* Numbers.  The engine computes in f64.  Every Julian Day it handles lies *)
(* in one binade, where the doubles form a uniform grid; the model keeps   *)
(* the grid and makes it coarser: a JD is an integer number of ticks, TPD  *)
(* ticks to the day, and an operation whose exact result falls between two *)
(* grid points rounds to the nearest one, ties to the even one, as the     *)
(* hardware does.  Angles are integers too (FU fine units to the degree);  *)
(* sums that reach the binade of 360 are rounded to the coarser grid of    *)
(* that binade (CoarseUlp fine units).                                     *)
(***************************************************************************)
EXTENDS Integers, Sequences, FiniteSets, TLC

VARIABLES
    loc,    \* the Location passed to the calls (model.rs Location)
    sky,    \* the parameters of the sun and the moon of this behaviour
    op,     \* the operation that ran last ("new": Ephemeris::new)
    arg,    \* its arguments
    ret,    \* its result
    moon    \* the MoonState of the Ephemeris (moon.rs MoonState)

vars == <<loc, sky, op, arg, ret, moon>>

(***************************************************************************)
(* Arithmetic helpers: the integer and floating-point operations of Rust.  *)
(***************************************************************************)

\* i32 `/` truncates toward zero.
TruncDiv(a, b) == IF a >= 0 THEN a \div b ELSE -((-a) \div b)

\* i32 `%` takes the sign of the dividend.
TruncRem(a, b) == a - b * TruncDiv(a, b)

\* f64::floor of the quotient a / b, b > 0.
FloorDiv(a, b) == a \div b

\* f64::ceil of the quotient a / b, b > 0.
CeilDiv(a, b) == -((-a) \div b)

\* The quotient a / b (b > 0) rounded to the nearest integer, ties to even:
\* the rounding of an f64 operation whose exact result is a / b grid steps.
RoundDiv(a, b) ==
    IF 2 * (a % b) < b THEN a \div b
    ELSE IF 2 * (a % b) > b THEN a \div b + 1
    ELSE IF (a \div b) % 2 = 0 THEN a \div b ELSE a \div b + 1

\* Ticks per day: the JD grid of the model (one tick is two minutes).
TPD == 24 * 30

\* One hour and one minute-pair in ticks.
Hour == TPD \div 24

(***************************************************************************)
(* ephemeris/julian_day.rs                                                 *)
(***************************************************************************)

\* julday with the century correction b of the years 1900 to 2099 in every
\* century: every fourth year a leap year.
julday_every_fourth(year, month, day) ==
    LET y == IF month <= 2 THEN year - 1 ELSE year
        m == IF month <= 2 THEN month + 12 ELSE month
        days == FloorDiv(1461 * (y + 4716), 4)
                  + FloorDiv(306001 * (m + 1), 10000)
                  + day - 13
    IN  days * TPD - 1524 * TPD - TPD \div 2

\* julday(year, month, day, 0.0), in ticks.  365.25 * n is exact in f64;
\* 30.6001 * (m + 1) is never within rounding distance of an integer.
julday(year, month, day) ==
    LET y == IF month <= 2 THEN year - 1 ELSE year
        m == IF month <= 2 THEN month + 12 ELSE month
        a == TruncDiv(y, 100)
        b == 2 - a + TruncDiv(a, 4)
        days == FloorDiv(1461 * (y + 4716), 4)
                  + FloorDiv(306001 * (m + 1), 10000)
                  + day + b
    IN  days * TPD - 1524 * TPD - TPD \div 2

gregorian_to_jd(year, month, day) == julday(year, month, day)

\* The switch of revjul between the Julian and the Gregorian calendar.
GregorianSwitch == 2299161

\* revjul(jd): <<year, month, day>> (the hour is not used by any caller of
\* the model).  The quotients under floor are never within rounding
\* distance of an integer unless they are integers.
revjul(jd) ==
    LET z     == FloorDiv(jd + TPD \div 2, TPD)
        alpha == FloorDiv(4 * z - 7468865, 146097)
        a     == IF z < GregorianSwitch
                 THEN z
                 ELSE z + 1 + alpha - FloorDiv(alpha, 4)
        b     == a + 1524
        c     == FloorDiv(20 * b - 2442, 7305)
        d     == FloorDiv(1461 * c, 4)
        e     == FloorDiv((b - d) * 10000, 306001)
        day   == b - d - FloorDiv(306001 * e, 10000)
        month == IF e < 14 THEN e - 1 ELSE e - 13
        year  == IF month > 2 THEN c - 4716 ELSE c - 4715
    IN  <<year, month, day>>

jd_to_gregorian(jd) == revjul(jd)

\* day_of_week without `+ 7) % 7`: the remainder of the floor as i64 `%`
\* leaves it.
day_of_week_rem(jd) ==
    TruncRem(FloorDiv(jd - 2433282 * TPD - 3 * (TPD \div 2), TPD), 7)

\* day_of_week: 0 = Monday ... 6 = Sunday.
day_of_week(jd) ==
    (TruncRem(FloorDiv(jd - 2433282 * TPD - 3 * (TPD \div 2), TPD), 7) + 7)
        % 7

(***************************************************************************)
(* core/panchang.rs: the month lengths                                     *)
(***************************************************************************)

\* `const MDAYS: [i32; 13]`, indexed from 0.
MDAYS ==
    [ i \in 0..12 |->
        <<0, 31, 28, 31, 30, 31, 30, 31, 31, 30, 31, 30, 31>>[i + 1] ]

days_in_month(year, month) ==
    IF month = 2 /\ ((year % 4 = 0 /\ year % 100 # 0) \/ year % 400 = 0)
    THEN 29
    ELSE MDAYS[month]

(***************************************************************************)
(* The f64 grid of angles.  An angle is an integer number of fine units,   *)
(* FU to the degree.  A double of magnitude 256 or more (the binade of     *)
(* 360) has a coarser grid than a smaller one: CoarseUlp fine units.       *)
(***************************************************************************)

FU == 20

Full == 360 * FU

Binade == 256 * FU

CoarseUlp == 4

\* Round-to-nearest-even of an exact result x to the grid of its binade.
Fl(x) ==
    IF -Binade < x /\ x < Binade THEN x
    ELSE IF x < 0 THEN -(CoarseUlp * RoundDiv(-x, CoarseUlp))
    ELSE CoarseUlp * RoundDiv(x, CoarseUlp)

\* f64 `%` (fmod): exact, with the sign of the dividend.
Fmod(x, m) == TruncRem(x, m)

\* `if x < 0.0 { x += 360.0 }`: the sum is rounded to the grid of 360.
AddTurnIfNegative(x) == IF x < 0 THEN Fl(x + Full) ELSE x

\* An exact angle in [0, 360) rounded down to the grid of its binade.
FloorToGrid(x) == IF x < Binade THEN x ELSE CoarseUlp * (x \div CoarseUlp)

\* (lo + hi) / 2.0 on the JD grid: the sum is rounded to the grid of the
\* next binade (ties to even), the halving is exact.
Mid(lo, hi) ==
    LET w == hi - lo
        h == lo + w \div 2
    IN  IF w % 2 = 0 THEN h ELSE IF h % 2 = 0 THEN h ELSE h + 1

(***************************************************************************)
(* The sky.  ephemeris/sun.rs is not among the sources: the sun follows    *)
(* the specification (4.2: an apparent longitude in [0, 360), increasing   *)
(* through the year).  The moon of ephemeris/moon.rs is a series of some   *)
(* 200 trigonometric terms; the model keeps what the calendar reads of it: *)
(* a mean motion (synodic month SynTicks) and one inequality (a triangle   *)
(* wave of period AnomTicks) that makes a tithi shorter or longer than a   *)
(* day, and the normalisation of the last lines of lunar_longitude.        *)
(* sky.sun0, sky.moon0, sky.anom0 are the epochs of the three motions.     *)
(***************************************************************************)

\* The sidereal year of masa.rs, 365.25636 days, in ticks.
YearTicks == 365 * TPD + (25636 * TPD) \div 100000

\* The synodic month, 29.530589 days, and the anomalistic month,
\* 27.554550 days, in ticks.
SynTicks == 29 * TPD + (530589 * (TPD \div 10)) \div 100000

AnomTicks == 27 * TPD + (554550 * (TPD \div 10)) \div 100000

\* The amplitude of the inequality: 8.95 degrees.
TriAmp == (895 * FU) \div 100

\* The sun's mean longitude of date, before rounding.
SunRaw(jd) == (((jd - sky.sun0) % YearTicks) * Full) \div YearTicks

\* sun::solar_longitude: in [0, 360), on the f64 grid.
solar_longitude(jd) == FloorToGrid(SunRaw(jd))

\* sun::nutation_longitude, in fine units: below the grid but for its sign.
nutation_longitude(jd) == -1

\* ayanamsa::ayanamsa: the Lahiri ayanamsa, 50 arcseconds a year, constant
\* over the days of one behaviour.
ayanamsa(jd) == sky.ayan

\* The inequality of the moon at jd.
Tri(jd) ==
    LET u == (jd - sky.anom0) % AnomTicks
        h == AnomTicks \div 2
    IN  IF u < h
        THEN (4 * TriAmp * u) \div AnomTicks - TriAmp
        ELSE TriAmp - (4 * TriAmp * (u - h)) \div AnomTicks

\* The moon's elongation from the sun at jd, before rounding.
Elongation(jd) ==
    (((jd - sky.moon0) % SynTicks) * Full) \div SynTicks + Tri(jd)

\* MoonState::lunar_longitude: the longitude of date, the nutation added,
\* then `lon_deg % 360.0; if lon_deg < 0.0 { lon_deg += 360.0 }`.
lunar_longitude(jd) ==
    AddTurnIfNegative(
        Fmod(Fl(((SunRaw(jd) + Elongation(jd) + 2 * Full) % Full)
                  + nutation_longitude(jd)),
             Full))

(***************************************************************************)
(* The MoonState of ephemeris/moon.rs, field by field.  The fields are     *)
(* scratch storage of one call of lunar_longitude: t and t2, the five      *)
(* fundamental arguments, the five planetary longitudes, and the tables ss *)
(* and cc of the sines and cosines of the multiples of four arguments.     *)
(* Angles are whole quarters of a turn, where the sine, the cosine and the *)
(* recurrences of sscc and chewm are exact in integers; t counts days from *)
(* J2000 and an arcsecond is a fine unit.  The tables LR, LRT and LRT2 are *)
(* excerpts of those of the source: their leading lines and the lines with *)
(* the highest multiples.                                                  *)
(***************************************************************************)

Quarter == Full \div 4

J2000 == 2451545 * TPD

\* f64::sin of an angle that is a whole number of quarters; f64::cos is the
\* sine of the angle a quarter on.
Sin(x) == CASE (x \div Quarter) % 4 = 0 -> 0
            [] (x \div Quarter) % 4 = 1 -> 1
            [] (x \div Quarter) % 4 = 2 -> 0
            [] (x \div Quarter) % 4 = 3 -> -1

mods3600(x) == x % Full

MoonState_new ==
    [ ss |-> [i \in 0..4 |-> [j \in 0..7 |-> 0]],
      cc |-> [i \in 0..4 |-> [j \in 0..7 |-> 0]],
      swelp |-> 0, m_sun |-> 0, mp |-> 0, d |-> 0, nf |-> 0,
      t |-> 0, t2 |-> 0,
      ve |-> 0, ea |-> 0, ma |-> 0, ju |-> 0, sa |-> 0 ]

\* sscc: the sine and cosine of (i + 1) * arg, by the addition theorems.
RECURSIVE sscc_sv(_, _)
RECURSIVE sscc_cv(_, _)
sscc_sv(a, i) ==
    IF i = 0 THEN Sin(a)
    ELSE IF i = 1 THEN 2 * Sin(a) * Sin(Quarter + a)
    ELSE Sin(a) * sscc_cv(a, i - 1) + Sin(Quarter + a) * sscc_sv(a, i - 1)

sscc_cv(a, i) ==
    IF i = 0 THEN Sin(Quarter + a)
    ELSE IF i = 1 THEN Sin(Quarter + a) * Sin(Quarter + a) - Sin(a) * Sin(a)
    ELSE Sin(Quarter + a) * sscc_cv(a, i - 1) - Sin(a) * sscc_sv(a, i - 1)

sscc(st, k, a, n) ==
    [st EXCEPT !.ss[k] = [i \in 0..7 |-> IF i < n THEN sscc_sv(a, i) ELSE @[i]],
               !.cc[k] = [i \in 0..7 |-> IF i < n THEN sscc_cv(a, i) ELSE @[i]]]

LR ==
    << << 0, 0, 1, 0, 22639, 5858 >>,
       << 2, 0, -1, 0, 4586, 4383 >>,
       << 2, 0, 0, 0, 2369, 9139 >>,
       << 2, -1, -1, 0, 205, 4358 >>,
       << 6, 0, -2, 0, 0, 5716 >>,
       << 0, 0, 5, 0, 0, 1110 >>,
       << 4, -1, -3, 0, 0, 998 >> >>

LRT ==
    << << 0, 1, 0, 0, 16, 7680 >>,
       << 2, -1, -1, 0, -5, -1642 >>,
       << 0, 1, -1, 0, 3, 7115 >> >>

LRT2 ==
    << << 0, 1, 0, 0, 487, 0 >>,
       << 2, -1, -1, 0, -150, 0 >>,
       << 0, 1, -1, 0, 108, 0 >> >>

\* chewm, one angle of one line: acc is <<k1, sv, cv>>, j the multiple in
\* the line, ssm and ccm the rows of ss and cc of the angle.
chewm_angle(acc, j, ssm, ccm) ==
    IF j = 0 THEN acc
    ELSE IF acc[1] = 0
    THEN << 1, IF j < 0 THEN -ssm[-j - 1] ELSE ssm[j - 1],
               IF j < 0 THEN ccm[-j - 1] ELSE ccm[j - 1] >>
    ELSE << 1,
            (IF j < 0 THEN -ssm[-j - 1] ELSE ssm[j - 1]) * acc[3]
              + (IF j < 0 THEN ccm[-j - 1] ELSE ccm[j - 1]) * acc[2],
            (IF j < 0 THEN ccm[-j - 1] ELSE ccm[j - 1]) * acc[3]
              - (IF j < 0 THEN -ssm[-j - 1] ELSE ssm[j - 1]) * acc[2] >>

RECURSIVE chewm_line(_, _, _)
chewm_line(st, line, nangles) ==
    IF nangles = 0 THEN << 0, 0, 0 >>
    ELSE chewm_angle(chewm_line(st, line, nangles - 1), line[nangles],
                     st.ss[nangles - 1], st.cc[nangles - 1])

RECURSIVE chewm(_, _, _, _, _)
chewm(st, pt, nlines, nangles, typflg) ==
    IF nlines = 0 THEN 0
    ELSE chewm(st, pt, nlines - 1, nangles, typflg)
         + (IF typflg = 1 THEN 10000 * pt[nlines][5] + pt[nlines][6]
            ELSE IF typflg = 2 THEN pt[nlines][5]
            ELSE 0) * chewm_line(st, pt[nlines], nangles)[2]

\* mean_elements: the fundamental arguments from self.t and self.t2.
mean_elements(st) ==
    [st EXCEPT !.m_sun = mods3600(Quarter * st.t + Quarter) + 4 * Quarter * st.t2,
               !.nf = mods3600(3 * Quarter * st.t + 2 * Quarter) + Quarter * st.t2,
               !.mp = mods3600(2 * Quarter * st.t + 3 * Quarter) + 2 * Quarter * st.t2,
               !.d = mods3600(Quarter * st.t) + 3 * Quarter * st.t2,
               !.swelp = mods3600(3 * Quarter * st.t + Quarter) + 2 * Quarter * st.t2]

\* mean_elements_pl: the planetary longitudes from self.t and self.t2.
mean_elements_pl(st) ==
    [st EXCEPT !.ve = mods3600(3 * Quarter * st.t + Quarter) + Quarter * st.t2,
               !.ea = mods3600(Quarter * st.t + 2 * Quarter) + 2 * Quarter * st.t2,
               !.ma = mods3600(2 * Quarter * st.t + Quarter) + Quarter * st.t2,
               !.ju = mods3600(Quarter * st.t + 3 * Quarter) + 3 * Quarter * st.t2,
               !.sa = mods3600(3 * Quarter * st.t) + Quarter * st.t2]

\* lunar_perturbations, its first lines: the tables zeroed, then filled.
fill_tables(st) ==
    sscc(sscc(sscc(sscc([st EXCEPT !.ss = MoonState_new.ss,
                                      !.cc = MoonState_new.cc],
                        0, st.d, 6),
                   1, st.m_sun, 4),
              2, st.mp, 4),
         3, st.nf, 4)

\* lunar_perturbations, the tables being filled: the explicit planetary
\* terms l_acc, l1, l2 and l3, the three tables, and the assembly.
lunar_perturbations(st) ==
    mods3600(
        st.swelp
        + 6 * Sin(Quarter + 18 * st.ve - 16 * st.ea - st.mp)
        + 13 * Sin(18 * st.ve - 16 * st.ea - st.mp)
        - Sin(Quarter + 4 * st.ea - 8 * st.ma + 3 * st.ju)
        + Sin(2 * st.ju - 5 * st.sa)
        + 7 * Sin(st.swelp - st.nf)
        + (((-2 * Sin(st.m_sun) * st.t
             - 84 * Sin(Quarter + 18 * st.ve - 16 * st.ea - st.mp)
             + chewm(st, LRT2, Len(LRT2), 4, 2)) * st.t
            + 23123 * Sin(Quarter + 18 * st.ve - 16 * st.ea - st.mp)
            - 10570 * Sin(18 * st.ve - 16 * st.ea - st.mp)
            + 299 * Sin(st.swelp - st.nf)
            + chewm(st, LRT, Len(LRT), 4, 1)) * st.t) \div 100000
        + chewm(st, LR, Len(LR), 4, 1) \div 10000)

\* A lunar_longitude that sets self.t2 after the mean elements.
lunar_longitude_late_t2(st, jd_ut) ==
    fill_tables(
        [mean_elements_pl(mean_elements(
            [st EXCEPT !.t = (jd_ut - J2000) \div TPD]))
         EXCEPT !.t2 = ((jd_ut - J2000) \div TPD) * ((jd_ut - J2000) \div TPD)])

\* MoonState::lunar_longitude on the state st: the state it leaves.
lunar_longitude_state(st, jd_ut) ==
    fill_tables(mean_elements_pl(mean_elements(
        [st EXCEPT !.t = (jd_ut - J2000) \div TPD,
                   !.t2 = ((jd_ut - J2000) \div TPD)
                          * ((jd_ut - J2000) \div TPD)])))

\* The longitude that the call returns, read from the state st that it
\* leaves: the perturbed longitude, the light-time correction from mp, d
\* and m_sun, the nutation, the normalisation.
lunar_longitude_deg(st, jd_ut) ==
    AddTurnIfNegative(
        Fmod(lunar_perturbations(st)
             - (20905 * Sin(Quarter + st.mp)
                + 3699 * Sin(Quarter + 2 * st.d - st.mp)
                + 2955 * Sin(Quarter + 2 * st.d) + 570 * Sin(Quarter + 2 * st.mp)
                - 49 * Sin(Quarter + st.m_sun)) \div 10000
             + nutation_longitude(jd_ut),
             Full))

lunar_longitude_on(st, jd_ut) ==
    lunar_longitude_deg(lunar_longitude_state(st, jd_ut), jd_ut)

(***************************************************************************)
(* ephemeris/mod.rs: the facade                                            *)
(***************************************************************************)

solar_longitude_sidereal(jd) ==
    AddTurnIfNegative(Fmod(Fl(solar_longitude(jd) - ayanamsa(jd)), Full))

(***************************************************************************)
(* ephemeris/rise.rs.  The hour angle and the corrections of the           *)
(* refinement of rise_set_for_date are trigonometry on sun.rs; the model   *)
(* keeps their outcome: at a location the sun is up all day (or down all   *)
(* day) from l.polar_from on, and otherwise the refinement starts l.dm0    *)
(* ticks before l.m_rise (l.m_set), ticks after 0h UT, and is corrected by *)
(* l.dm0 in its first turn.  Where the sun grazes the horizon (l.osc) the  *)
(* corrections keep their size and alternate in sign; at l.flat_at (when   *)
(* not 0) the denominator of the correction vanishes.  The loop, its exits *)
(* and what is returned are those of the code.                             *)
(***************************************************************************)

\* l.polar_from of a location where the sun rises and sets every day, and
\* l.polar_until of one where it never does again: a moment after every JD
\* of the model; and l.polar_from of one where it never did.
NoPolar == 2^30 + (2^30 - 1)

AlwaysPolar == -NoPolar

Circumpolar(l, jd_0h) ==
    l.polar_from <= jd_0h + TPD \div 2 /\ jd_0h + TPD \div 2 < l.polar_until

\* `let dm = (alt - h0) / denom` in turn k of the refinement.
Dm(l, k) ==
    IF l.osc
    THEN IF k % 2 = 1 THEN l.dm0 ELSE -l.dm0
    ELSE IF k = 1 THEN l.dm0 ELSE 0

\* The m before the loop: `m = m - m.floor()`.
MInit(l, is_rise) ==
    ((IF is_rise THEN l.m_rise ELSE l.m_set) - l.dm0) % TPD

RefineSteps == 10

\* The loop `for _ in 0..10` of rise_set_for_date, k - 1 turns done: it
\* ends after RefineSteps turns, at `if denom.abs() < 1e-12 { break; }`
\* (turn l.flat_at), or after `m += dm` at
\* `if dm.abs() < 0.0000001 { break; }` (a correction below the threshold
\* is below the JD grid).
RECURSIVE Refine(_, _, _)
Refine(l, m, k) ==
    IF k > RefineSteps THEN m
    ELSE IF l.flat_at = k THEN m
    ELSE IF Dm(l, k) = 0 THEN m + Dm(l, k)
    ELSE Refine(l, m + Dm(l, k), k + 1)

\* `if is_rise && m > 0.75 { m -= 1.0; } if !is_rise && m < 0.25 { m += 1.0; }`
wrap_midnight(m, is_rise) ==
    IF is_rise /\ 4 * m > 3 * TPD THEN m - TPD
    ELSE IF ~is_rise /\ 4 * m < TPD THEN m + TPD
    ELSE m

rise_set_for_date(l, jd_0h, is_rise) ==
    IF Circumpolar(l, jd_0h)
    THEN 0
    ELSE jd_0h + wrap_midnight(Refine(l, MInit(l, is_rise), 1), is_rise)

\* 0.0001 day on the JD grid.
RetryEps == RoundDiv(TPD, 10000)

\* `julian_day::julday(yr, mo, dy, 0.0)` of a date <<yr, mo, dy>>.
julday_of(date) == julday(date[1], date[2], date[3])

\* rise_set from `if result > 0.0 && result >= jd_ut - 0.0001` on.
rise_set_retry(result, l, jd_ut, jd_0h, is_rise) ==
    IF result > 0 /\ result >= jd_ut - RetryEps
    THEN result
    ELSE rise_set_for_date(l, jd_0h + TPD, is_rise)

\* rise_set from `let result = rise_set_for_date(...)` on.
rise_set_from(l, jd_ut, jd_0h, is_rise) ==
    rise_set_retry(rise_set_for_date(l, jd_0h, is_rise),
                   l, jd_ut, jd_0h, is_rise)

rise_set(l, jd_ut, is_rise) ==
    rise_set_from(l, jd_ut, julday_of(revjul(jd_ut)), is_rise)

sunrise(l, jd_ut) == rise_set(l, jd_ut, TRUE)

sunset(l, jd_ut) == rise_set(l, jd_ut, FALSE)

\* Ephemeris::sunrise_jd and sunset_jd; l.utc_offset is in ticks.
sunrise_jd(jd_ut, l) == sunrise(l, jd_ut - l.utc_offset)

sunset_jd(jd_ut, l) == sunset(l, jd_ut - l.utc_offset)

(***************************************************************************)
(* core/tithi.rs                                                           *)
(***************************************************************************)

lunar_phase(jd_ut) ==
    AddTurnIfNegative(
        Fmod(Fl(lunar_longitude(jd_ut) - solar_longitude(jd_ut)), Full))

\* `if t > 30 { t = 30; }`
clamp_tithi(t) == IF t > 30 THEN 30 ELSE t

tithi_at_moment(jd_ut) ==
    clamp_tithi(TruncDiv(lunar_phase(jd_ut), 12 * FU) + 1)

\* The signed residual of both bisections: phase - target in (-180, 180].
\* `if diff < -180.0 { diff += 360.0; }`
AddTurnIfLow(diff) == IF diff < -(Full \div 2) THEN diff + Full ELSE diff

\* `if diff > 180.0 { diff -= 360.0; }`
SubTurnIfHigh(diff) == IF diff > Full \div 2 THEN diff - Full ELSE diff

SignedDiff(x, target) == AddTurnIfLow(SubTurnIfHigh(x - target))

\* The loop of find_tithi_boundary with n steps to go.  A step that leaves
\* lo and hi as they are (mid is the bound it replaces) leaves them so in
\* every later step, and the result is that mid.
RECURSIVE TithiBisect(_, _, _, _)

\* The step with the sides exchanged: `if diff >= 0.0 { lo = mid; } else
\* { hi = mid; }`.
TithiBisectExchanged(diff, lo, hi, mid, target_phase, n) ==
    IF diff >= 0
    THEN IF mid = lo THEN mid ELSE TithiBisect(mid, hi, target_phase, n - 1)
    ELSE IF mid = hi THEN mid ELSE TithiBisect(lo, mid, target_phase, n - 1)

\* `if diff >= 0.0 { hi = mid; } else { lo = mid; }`, and the steps left.
TithiBisectOn(diff, lo, hi, mid, target_phase, n) ==
    IF diff >= 0
    THEN IF mid = hi THEN mid ELSE TithiBisect(lo, mid, target_phase, n - 1)
    ELSE IF mid = lo THEN mid ELSE TithiBisect(mid, hi, target_phase, n - 1)

\* One step from `let phase = lunar_phase(eph, mid)` on.
TithiBisectAt(mid, lo, hi, target_phase, n) ==
    TithiBisectOn(SignedDiff(lunar_phase(mid), target_phase),
                  lo, hi, mid, target_phase, n)

TithiBisect(lo, hi, target_phase, n) ==
    IF n = 0
    THEN Mid(lo, hi)
    ELSE TithiBisectAt(Mid(lo, hi), lo, hi, target_phase, n)

BisectSteps == 50

find_tithi_boundary(jd_start, jd_end, target_tithi) ==
    TithiBisect(jd_start, jd_end, (target_tithi - 1) * 12 * FU, BisectSteps)

\* `if t <= 15 { Paksha::Shukla } else { Paksha::Krishna }`, with the
\* boundary one tithi early.
paksha_early(t) == IF t < 15 THEN "Shukla" ELSE "Krishna"

\* `let paksha = if t <= 15 { Paksha::Shukla } else { Paksha::Krishna }`
paksha_of(t) == IF t <= 15 THEN "Shukla" ELSE "Krishna"

\* `((t_tmrw - t) + 30) % 30`, with the wrap-around term one short.
kshaya_diff_short(t_tmrw, t) == TruncRem((t_tmrw - t) + 29, 30)

\* `let diff = ((t_tmrw - t) + 30) % 30`
kshaya_diff(t_tmrw, t) == TruncRem((t_tmrw - t) + 30, 30)

\* `if jd_rise <= 0.0 { jd_rise = jd + 0.5 - loc.utc_offset / 24.0; }`
sunrise_or_fallback(jd_rise, jd, l) ==
    IF jd_rise <= 0 THEN jd + TPD \div 2 - l.utc_offset ELSE jd_rise

\* `let is_kshaya = if jd_rise_tmrw > 0.0 { ... } else { false }`
is_kshaya_of(jd_rise_tmrw, t) ==
    IF jd_rise_tmrw > 0
    THEN kshaya_diff(tithi_at_moment(jd_rise_tmrw), t) > 1
    ELSE FALSE

\* tithi_at_sunrise from `let paksha = ...` on: the TithiInfo.
tithi_info(t, jd, jd_rise, l) ==
    [ tithi_num    |-> t,
      paksha       |-> paksha_of(t),
      paksha_tithi |-> IF t <= 15 THEN t ELSE t - 15,
      jd_start     |-> find_tithi_boundary(jd_rise - 2 * TPD, jd_rise, t),
      jd_end       |-> find_tithi_boundary(jd_rise, jd_rise + 2 * TPD,
                                           (t % 30) + 1),
      is_kshaya    |-> is_kshaya_of(sunrise_jd(jd + TPD, l), t) ]

\* tithi_at_sunrise from `let t = tithi_at_moment(eph, jd_rise)` on.
tithi_at_rise(jd_rise, jd, l) ==
    tithi_info(tithi_at_moment(jd_rise), jd, jd_rise, l)

\* tithi_at_sunrise from `let mut jd_rise = eph.sunrise_jd(jd, loc)` on.
tithi_on_jd(jd, l) ==
    tithi_at_rise(sunrise_or_fallback(sunrise_jd(jd, l), jd, l), jd, l)

tithi_at_sunrise(year, month, day, l) ==
    tithi_on_jd(gregorian_to_jd(year, month, day), l)

(***************************************************************************)
(* core/masa.rs                                                            *)
(***************************************************************************)

\* The 17 abscissae of new_moon_before and new_moon_after: -2 + i * 0.25
\* days, i = 0..16, in ticks.
NSamples == 17

SampleX(i) == (i - 1) * (TPD \div 4) - 2 * TPD

\* unwrap_angles: angles[i] += 360 where it is below its (already
\* unwrapped) predecessor.
RECURSIVE unwrap_angles(_, _)
unwrap_angles(angles, i) ==
    IF i > Len(angles)
    THEN angles
    ELSE unwrap_angles(
             IF angles[i] < angles[i - 1]
             THEN [angles EXCEPT ![i] = Fl(angles[i] + Full)]
             ELSE angles,
             i + 1)

\* inverse_lagrange(x, y, n, ya).  The polynomial through the n samples,
\* read at ya.  The samples of the model's moon lie on straight pieces, and
\* on those the polynomial is the chord of the samples that bracket ya (the
\* first or the last chord when none does), rounded to the JD grid.
Brackets(y, n, ya) == { i \in 1..(n - 1) : y[i] <= ya /\ ya < y[i + 1] }

ChordIndex(segs, y, n, ya) ==
    IF segs # {} THEN CHOOSE k \in segs : TRUE
    ELSE IF ya < y[1] THEN 1 ELSE n - 1

ChordAt(x0, x1, y0, y1, ya) ==
    IF y1 - y0 <= 0
    THEN x0
    ELSE x0 + RoundDiv((ya - y0) * (x1 - x0), y1 - y0)

Chord(i, y, ya) == ChordAt(SampleX(i), SampleX(i + 1), y[i], y[i + 1], ya)

inverse_lagrange(y, n, ya) ==
    Chord(ChordIndex(Brackets(y, n, ya), y, n, ya), y, ya)

\* The loop that fills y[i] = lunar_phase(start + x[i]).
RECURSIVE SamplePhases(_, _)
SamplePhases(start, y) ==
    IF Len(y) = NSamples
    THEN y
    ELSE SamplePhases(start,
                      Append(y, lunar_phase(start + SampleX(Len(y) + 1))))

\* new_moon_before and new_moon_after from the loop that fills y on:
\* unwrap_angles, `let y0 = inverse_lagrange(&x, &y, 17, 360.0)`, start + y0.
new_moon_near(start) ==
    start + inverse_lagrange(unwrap_angles(SamplePhases(start, <<>>), 2),
                             NSamples, Full)

new_moon_before(jd_ut, tithi_hint) == new_moon_near(jd_ut - tithi_hint * TPD)

new_moon_after(jd_ut, tithi_hint) ==
    new_moon_near(jd_ut + (30 - tithi_hint) * TPD)

\* `if rashi == 0 { rashi = 12; }`
rashi_zero(rashi) == IF rashi = 0 THEN 12 ELSE rashi

\* `if rashi > 12 { rashi = rashi % 12; }`
rashi_above(rashi) ==
    rashi_zero(IF rashi > 12 THEN TruncRem(rashi, 12) ELSE rashi)

\* `if rashi <= 0 { rashi = 12; }`
rashi_below(rashi) == rashi_above(IF rashi <= 0 THEN 12 ELSE rashi)

solar_rashi(jd_ut) ==
    rashi_below(CeilDiv(solar_longitude_sidereal(jd_ut), 30 * FU))

\* model.rs MASA_NAMES and the enum MasaName.
MASA_NAMES ==
    << "Chaitra", "Vaishakha", "Jyeshtha", "Ashadha", "Shravana",
       "Bhadrapada", "Ashvina", "Kartika", "Margashirsha", "Pausha",
       "Magha", "Phalguna" >>

\* MasaName::from_number, with its default arm.
from_number(n) == IF n \in 1..12 THEN MASA_NAMES[n] ELSE "Chaitra"

\* MasaName::number.
number(name) == CHOOSE n \in 1..12 : MASA_NAMES[n] = name

\* The Kali epoch of hindu_year_saka, JD 588465.5, in ticks.
KaliEpoch == 588465 * TPD + TPD \div 2

\* n sidereal years of 365.25636 days are at most a ticks (0.5792 tick, the
\* fraction of 365.25636 * TPD, is 362/625).
YearsWithin(n, a) == n * 362 <= (a - n * YearTicks) * 625

\* `(a / sidereal_year) as i32` for a > 0: the most years within a ticks.
YearsIn(a) ==
    CHOOSE n \in (a \div (YearTicks + 1) - 1)..(a \div YearTicks + 1) :
        YearsWithin(n, a) /\ ~YearsWithin(n + 1, a)

\* hindu_year_saka: `as i32` truncates the quotient toward zero.
hindu_year_saka(jd_ut, masa_num) ==
    IF (jd_ut - KaliEpoch) + (4 - masa_num) * 30 * TPD >= 0
    THEN YearsIn((jd_ut - KaliEpoch) + (4 - masa_num) * 30 * TPD) - 3179
    ELSE -YearsIn(-((jd_ut - KaliEpoch) + (4 - masa_num) * 30 * TPD)) - 3179

hindu_year_vikram(saka_year) == saka_year + 135

\* `let is_adhika = rashi_last == rashi_next`, comparing with the rashi
\* that follows instead.
is_adhika_successor(rashi_last, rashi_next) ==
    (rashi_last % 12) + 1 = rashi_next

\* `let is_adhika = rashi_last == rashi_next`
is_adhika_of(rashi_last, rashi_next) == rashi_last = rashi_next

\* `let mut masa_num = rashi_last + 1`, without the wrap-around.
masa_num_nowrap(rashi_last) == rashi_last + 1

\* `let mut masa_num = rashi_last + 1; if masa_num > 12 { masa_num -= 12; }`
masa_num_of(rashi_last) ==
    IF rashi_last + 1 > 12 THEN rashi_last + 1 - 12 ELSE rashi_last + 1

\* masa_for_date from `let year_vikram = ...` on: the MasaInfo, and the
\* local masa_num handed to MasaName::from_number.
masa_info(year_saka, masa_num, is_adhika, last_nm, next_nm) ==
    [ name        |-> from_number(masa_num),
      is_adhika   |-> is_adhika,
      year_saka   |-> year_saka,
      year_vikram |-> hindu_year_vikram(year_saka),
      jd_start    |-> last_nm,
      jd_end      |-> next_nm,
      masa_num    |-> masa_num ]

\* masa_for_date from `let name = MasaName::from_number(masa_num)` on.
masa_numbered(masa_num, is_adhika, jd_rise, last_nm, next_nm) ==
    masa_info(hindu_year_saka(jd_rise, masa_num), masa_num, is_adhika,
              last_nm, next_nm)

\* masa_for_date from `let is_adhika = ...` on.
masa_of_rashis(rashi_last, rashi_next, jd_rise, last_nm, next_nm) ==
    masa_numbered(masa_num_of(rashi_last),
                  is_adhika_of(rashi_last, rashi_next),
                  jd_rise, last_nm, next_nm)

\* masa_for_date from `let rashi_last = solar_rashi(eph, last_nm)` on.
masa_between(last_nm, next_nm, jd_rise) ==
    masa_of_rashis(solar_rashi(last_nm), solar_rashi(next_nm),
                   jd_rise, last_nm, next_nm)

\* masa_for_date from `let last_nm = new_moon_before(eph, jd_rise, t)` on.
masa_at_tithi(t, jd_rise) ==
    masa_between(new_moon_before(jd_rise, t), new_moon_after(jd_rise, t),
                 jd_rise)

\* masa_for_date from `let t = tithi::tithi_at_moment(eph, jd_rise)` on.
masa_at_rise(jd_rise) == masa_at_tithi(tithi_at_moment(jd_rise), jd_rise)

\* masa_for_date from `let mut jd_rise = eph.sunrise_jd(jd, loc)` on.
masa_on_jd(jd, l) ==
    masa_at_rise(sunrise_or_fallback(sunrise_jd(jd, l), jd, l))

masa_for_date(year, month, day, l) ==
    masa_on_jd(gregorian_to_jd(year, month, day), l)

(***************************************************************************)
(* core/panchang.rs                                                        *)
(***************************************************************************)

\* The is_adhika_tithi of gregorian_to_hindu without its `day > 1`.
is_adhika_tithi_unguarded(year, month, day, l, ti) ==
    ti.tithi_num = tithi_at_sunrise(year, month, day - 1, l).tithi_num

\* `let is_adhika_tithi = if day > 1 { ... } else { false }`
is_adhika_tithi_of(year, month, day, l, ti) ==
    IF day > 1
    THEN ti.tithi_num = tithi_at_sunrise(year, month, day - 1, l).tithi_num
    ELSE FALSE

\* gregorian_to_hindu from `let is_adhika_tithi = ...` on: the HinduDate.
hindu_date(ti, mi, year, month, day, l) ==
    [ masa            |-> mi.name,
      is_adhika_masa  |-> mi.is_adhika,
      year_saka       |-> mi.year_saka,
      year_vikram     |-> mi.year_vikram,
      paksha          |-> ti.paksha,
      tithi           |-> ti.paksha_tithi,
      is_adhika_tithi |-> is_adhika_tithi_of(year, month, day, l, ti) ]

gregorian_to_hindu(year, month, day, l) ==
    hindu_date(tithi_at_sunrise(year, month, day, l),
               masa_for_date(year, month, day, l),
               year, month, day, l)

\* The PanchangDay that generate_month_panchang pushes for day d.
PanchangDay(year, month, d, l) ==
    [ greg_year  |-> year,
      greg_month |-> month,
      greg_day   |-> d,
      jd_sunrise |-> sunrise_jd(gregorian_to_jd(year, month, d), l),
      hindu_date |-> gregorian_to_hindu(year, month, d, l),
      tithi      |-> tithi_at_sunrise(year, month, d, l) ]

(***************************************************************************)
(* core/solar.rs                                                           *)
(***************************************************************************)

\* SolarCalendarType.
CalTypes == {"Tamil", "Bengali", "Odia", "Malayalam"}

\* The SolarCalendarConfig of each calendar.
first_rashi(cal_type) == IF cal_type = "Malayalam" THEN 5 ELSE 1

gy_offset_on(cal_type) ==
    CASE cal_type = "Tamil"     -> 78
      [] cal_type = "Bengali"   -> 593
      [] cal_type = "Odia"      -> 78
      [] cal_type = "Malayalam" -> 824

gy_offset_before(cal_type) ==
    CASE cal_type = "Tamil"     -> 79
      [] cal_type = "Bengali"   -> 594
      [] cal_type = "Odia"      -> 79
      [] cal_type = "Malayalam" -> 825

\* The Malayalam critical time at the middle of the day: 0.5 for 0.6.
malayalam_time_noon(sr, ss) ==
    sr + RoundDiv(720 * (ss - sr) - 95 * (TPD \div 10), 1440)

\* `sr + 0.6 * (ss - sr) - 9.5 / (24.0 * 60.0)`, rounded to the JD grid.
malayalam_time(sr, ss) ==
    sr + RoundDiv(864 * (ss - sr) - 95 * (TPD \div 10), 1440)

\* critical_time_jd.  8 and 24 minutes and 16.7 hours are whole ticks.
critical_time_jd(jd_midnight_ut, l, cal_type) ==
    CASE cal_type = "Tamil" ->
           sunset_jd(jd_midnight_ut, l) - (8 * Hour) \div 60
      [] cal_type = "Bengali" ->
           jd_midnight_ut - l.utc_offset + (24 * Hour) \div 60
      [] cal_type = "Odia" ->
           jd_midnight_ut + (167 * Hour) \div 10
      [] cal_type = "Malayalam" ->
           malayalam_time(sunrise_jd(jd_midnight_ut, l),
                          sunset_jd(jd_midnight_ut, l))

\* The loop of sankranti_jd with n steps to go.  A step that leaves lo and
\* hi as they are leaves them so in every later step, and the result is
\* that mid.
RECURSIVE SankrantiBisect(_, _, _, _)

\* `if diff >= 0.0 { hi = mid; } else { lo = mid; }`, and the steps left.
SankrantiBisectOn(diff, lo, hi, mid, target_longitude, n) ==
    IF diff >= 0
    THEN IF mid = hi THEN mid
         ELSE SankrantiBisect(lo, mid, target_longitude, n - 1)
    ELSE IF mid = lo THEN mid
         ELSE SankrantiBisect(mid, hi, target_longitude, n - 1)

\* One step from `let lon = eph.solar_longitude_sidereal(mid)` on.
SankrantiBisectAt(mid, lo, hi, target_longitude, n) ==
    SankrantiBisectOn(
        SignedDiff(solar_longitude_sidereal(mid), target_longitude),
        lo, hi, mid, target_longitude, n)

SankrantiBisect(lo, hi, target_longitude, n) ==
    IF n = 0
    THEN Mid(lo, hi)
    ELSE SankrantiBisectAt(Mid(lo, hi), lo, hi, target_longitude, n)

SankrantiSteps == 50

\* The lower bound that is never moved back.
sankranti_lo_fixed(lo, target_longitude) == lo

\* `if diff_lo >= 0.0 { lo -= 30.0; }`
sankranti_lo(lo, target_longitude) ==
    IF SignedDiff(solar_longitude_sidereal(lo), target_longitude) >= 0
    THEN lo - 30 * TPD
    ELSE lo

sankranti_jd(jd_approx, target_longitude) ==
    SankrantiBisect(sankranti_lo(jd_approx - 20 * TPD, target_longitude),
                    jd_approx + 20 * TPD, target_longitude, SankrantiSteps)

\* `eph.gregorian_to_jd(y, m, d)` of a date <<y, m, d>>.
jd_of_date(date) == gregorian_to_jd(date[1], date[2], date[3])

\* `tithi::tithi_at_sunrise(eph, py, pm, pd, loc)` of a date <<py, pm, pd>>.
tithi_at_date(date, l) == tithi_at_sunrise(date[1], date[2], date[3], l)

\* `let push_next = if rashi == 10 { true } else { ... }`
push_next(rashi, jd_day, jd_sankranti, l) ==
    IF rashi = 10
    THEN TRUE
    ELSE tithi_at_date(jd_to_gregorian(jd_day - TPD), l).jd_end
             <= jd_sankranti

\* sankranti_to_civil_day from `let crit = ...` on; s is (sy, sm, sd).
civil_day_on(jd_day, s, jd_sankranti, l, cal_type, rashi) ==
    IF jd_sankranti <= critical_time_jd(jd_day, l, cal_type)
    THEN IF /\ cal_type = "Bengali"
            /\ rashi # 4
            /\ push_next(rashi, jd_day, jd_sankranti, l)
         THEN jd_to_gregorian(jd_day + TPD)
         ELSE s
    ELSE jd_to_gregorian(jd_day + TPD)

\* sankranti_to_civil_day from `let jd_day = ...` on.
civil_day_from(s, jd_sankranti, l, cal_type, rashi) ==
    civil_day_on(jd_of_date(s), s, jd_sankranti, l, cal_type, rashi)

sankranti_to_civil_day(jd_sankranti, l, cal_type, rashi) ==
    civil_day_from(
        jd_to_gregorian(
            FloorDiv(jd_sankranti + l.utc_offset + TPD \div 2, TPD) * TPD),
        jd_sankranti, l, cal_type, rashi)

\* The wrap of the month number that leaves 0 alone: `m < 0` for `m <= 0`.
wrap_month_negative(m) == IF m < 0 THEN m + 12 ELSE m

\* `if m <= 0 { m += 12; }`
wrap_month(m) == IF m <= 0 THEN m + 12 ELSE m

rashi_to_regional_month(rashi, cal_type) ==
    wrap_month(rashi - first_rashi(cal_type) + 1)

\* `let mut approx_greg_month = 3 + cfg.first_rashi;
\*  if approx_greg_month > 12 { approx_greg_month -= 12; }`
approx_greg_month(rashi) ==
    IF 3 + rashi > 12 THEN 3 + rashi - 12 ELSE 3 + rashi

\* solar_year from `let (ysy, ysm, ysd) = ...` on.
solar_year_from(jd_year_start, gy, l, jd_greg_date, cal_type) ==
    IF jd_greg_date >=
           jd_of_date(sankranti_to_civil_day(jd_year_start, l, cal_type,
                                             first_rashi(cal_type)))
    THEN gy - gy_offset_on(cal_type)
    ELSE gy - gy_offset_before(cal_type)

\* solar_year from `let target_long = ...` on.
solar_year_in(gy, l, jd_greg_date, cal_type) ==
    solar_year_from(
        sankranti_jd(
            gregorian_to_jd(gy, approx_greg_month(first_rashi(cal_type)), 14),
            (first_rashi(cal_type) - 1) * 30 * FU),
        gy, l, jd_greg_date, cal_type)

solar_year(jd_ut, l, jd_greg_date, cal_type) ==
    solar_year_in(jd_to_gregorian(jd_ut)[1], l, jd_greg_date, cal_type)

\* `if rashi > 12 { rashi = 12; } if rashi < 1 { rashi = 1; }`
clamp_rashi(r) == IF r > 12 THEN 12 ELSE IF r < 1 THEN 1 ELSE r

\* `(lon / 30.0).floor() as i32 + 1`, clamped to 1..12.
rashi_of_longitude(lon) == clamp_rashi(FloorDiv(lon, 30 * FU) + 1)

\* `let mut degrees_past = lon - target;
\*  if degrees_past < 0.0 { degrees_past += 360.0; }`
degrees_past(lon, target) ==
    IF lon - target < 0 THEN lon - target + Full ELSE lon - target

\* `(jd - jd_month_start) as i32 + 1` for the month that starts on date s.
day_of_month(jd, s) == TruncDiv(jd - jd_of_date(s), TPD) + 1

\* gregorian_to_solar from `let reg_month = ...` on: the SolarDate.
solar_date(rashi, jd_sankranti, sd_day, jd, jd_crit, l, cal_type) ==
    [ year         |-> solar_year(jd_crit, l, jd, cal_type),
      month        |-> rashi_to_regional_month(rashi, cal_type),
      day          |-> sd_day,
      rashi        |-> rashi,
      jd_sankranti |-> jd_sankranti ]

\* The branch `if sd_day <= 0` from `let (sy2, sm2, sd2) = ...` on.
solar_previous_at(new_jd_sank, new_rashi, jd, jd_crit, l, cal_type) ==
    solar_date(new_rashi, new_jd_sank,
               day_of_month(jd, sankranti_to_civil_day(new_jd_sank, l,
                                                       cal_type, new_rashi)),
               jd, jd_crit, l, cal_type)

\* The branch `if sd_day <= 0` from `let prev_target = ...` on.
solar_previous(new_rashi, jd_sankranti, jd, jd_crit, l, cal_type) ==
    solar_previous_at(
        sankranti_jd(jd_sankranti - 28 * TPD, (new_rashi - 1) * 30 * FU),
        new_rashi, jd, jd_crit, l, cal_type)

\* gregorian_to_solar without the branch `if sd_day <= 0`: no retreat to the
\* previous rashi.
solar_without_retreat(sd_day, rashi, jd_sankranti, jd, jd_crit, l, cal_type) ==
    solar_date(rashi, jd_sankranti, sd_day, jd, jd_crit, l, cal_type)

\* gregorian_to_solar from `let (rashi, jd_sankranti) = if sd_day <= 0` on.
solar_from_day(sd_day, rashi, jd_sankranti, jd, jd_crit, l, cal_type) ==
    IF sd_day <= 0
    THEN solar_previous(IF rashi = 1 THEN 12 ELSE rashi - 1, jd_sankranti,
                        jd, jd_crit, l, cal_type)
    ELSE solar_date(rashi, jd_sankranti, sd_day, jd, jd_crit, l, cal_type)

\* gregorian_to_solar from `let (sy, sm, s_day) = ...` on.
solar_after(jd_sankranti, rashi, jd, jd_crit, l, cal_type) ==
    solar_from_day(
        day_of_month(jd, sankranti_to_civil_day(jd_sankranti, l, cal_type,
                                                rashi)),
        rashi, jd_sankranti, jd, jd_crit, l, cal_type)

\* gregorian_to_solar from `let target = ...` on.  One degree of
\* degrees_past is one day in jd_est.
solar_in_rashi(rashi, lon, jd, jd_crit, l, cal_type) ==
    solar_after(
        sankranti_jd(
            jd_crit - degrees_past(lon, (rashi - 1) * 30 * FU) * (TPD \div FU),
            (rashi - 1) * 30 * FU),
        rashi, jd, jd_crit, l, cal_type)

\* gregorian_to_solar from `let lon = ...` on.
solar_at_lon(lon, jd, jd_crit, l, cal_type) ==
    solar_in_rashi(rashi_of_longitude(lon), lon, jd, jd_crit, l, cal_type)

\* gregorian_to_solar from `let jd_crit = ...` on.
solar_at_crit(jd_crit, jd, l, cal_type) ==
    solar_at_lon(solar_longitude_sidereal(jd_crit), jd, jd_crit, l, cal_type)

solar_on_jd(jd, l, cal_type) ==
    solar_at_crit(critical_time_jd(jd, l, cal_type), jd, l, cal_type)

\* gregorian_to_solar: the SolarDate.
gregorian_to_solar(year, month, day, l, cal_type) ==
    solar_on_jd(gregorian_to_jd(year, month, day), l, cal_type)

(***************************************************************************)
(* Locations (model.rs Location).  utc_offset is in ticks; m_rise, m_set   *)
(* and polar_from say what latitude, longitude and altitude give the sun.  *)
(***************************************************************************)

\* Location::NEW_DELHI: UTC+5.5, the sun rises 01:40 UT and sets 12:24 UT.
NEW_DELHI ==
    [ utc_offset |-> (11 * Hour) \div 2, m_rise |-> 50, m_set |-> 372,
      polar_from |-> NoPolar,
      polar_until |-> NoPolar, dm0 |-> 1, osc |-> FALSE, flat_at |-> 0 ]

\* A location west of Greenwich: UTC-8, the sun rises 14:50 UT and sets
\* 01:20 UT.
LOS_ANGELES ==
    [ utc_offset |-> -8 * Hour, m_rise |-> 445, m_set |-> 40,
      polar_from |-> NoPolar,
      polar_until |-> NoPolar, dm0 |-> 1, osc |-> FALSE, flat_at |-> 0 ]

\* A location far east: UTC+12, the sun rises 18:30 UT and sets 08:30 UT.
AUCKLAND ==
    [ utc_offset |-> 12 * Hour, m_rise |-> 555, m_set |-> 255,
      polar_from |-> NoPolar,
      polar_until |-> NoPolar, dm0 |-> 1, osc |-> FALSE, flat_at |-> 0 ]

\* A location beyond the polar circle in the season without sunrise.
LONGYEARBYEN ==
    [ utc_offset |-> Hour, m_rise |-> 300, m_set |-> 390,
      polar_from |-> AlwaysPolar,
      polar_until |-> NoPolar, dm0 |-> 1, osc |-> FALSE, flat_at |-> 0 ]

\* The day of the month on which the sun stops rising at TROMSO.
PolarOnsetDay == 20

\* A location beyond the polar circle whose last sunrise is on the day
\* before day PolarOnsetDay of the given month.
TROMSO(year, month) ==
    [ utc_offset |-> Hour, m_rise |-> 300, m_set |-> 390,
      polar_from |-> julday(year, month, PolarOnsetDay) + TPD \div 2,
      polar_until |-> NoPolar, dm0 |-> 1, osc |-> FALSE, flat_at |-> 0 ]

(***************************************************************************)
(* The panchang specification: generate_month_panchang, day by day, for a  *)
(* month, a location and a sky.                                            *)
(***************************************************************************)

\* The months tried: a modern month, a leap February, a month before 1582.
PanchangMonths ==
    { [year |-> 2025, month |-> 1], [year |-> 2024, month |-> 2],
      [year |-> 1500, month |-> 3] }

Locations(year, month) ==
    { NEW_DELHI, LOS_ANGELES, AUCKLAND, LONGYEARBYEN, TROMSO(year, month) }

\* The epochs of the moon tried: MoonPhases of them, evenly through the
\* synodic month from a new moon that falls on a sunrise of New Delhi, with
\* the inequality passing through zero there, upwards or downwards.
MoonPhases == 6

NewMoonAnchor == sunrise_jd(gregorian_to_jd(1500, 3, 25), NEW_DELHI)

MoonEpochs ==
    { NewMoonAnchor + (k * SynTicks) \div MoonPhases : k \in 0..(MoonPhases - 1) }

AnomEpochs ==
    { NewMoonAnchor - AnomTicks \div 4, NewMoonAnchor + AnomTicks \div 4 }

\* The Lahiri ayanamsa: about 24 degrees.
Ayan == 24 * FU

\* The epoch of the sun: the equinox of March 2000, 20 March about 8h UT.
VernalEquinox == julday(2000, 3, 20) + 8 * Hour

Skies ==
    [ sun0 : {VernalEquinox}, ayan : {Ayan}, moon0 : MoonEpochs,
      anom0 : AnomEpochs ]

InitPanchang ==
    /\ arg \in PanchangMonths
    /\ loc \in Locations(arg.year, arg.month)
    /\ sky \in Skies
    /\ op = "new"
    /\ ret = <<>>
    /\ moon = MoonState_new

\* One turn of the loop `for d in 1..=ndays` of generate_month_panchang:
\* ret is the Vec `days`.
GenerateMonthPanchang ==
    /\ Len(ret) < days_in_month(arg.year, arg.month)
    /\ op' = "generate_month_panchang"
    /\ ret' = Append(ret, PanchangDay(arg.year, arg.month, Len(ret) + 1, loc))
    /\ UNCHANGED <<moon, loc, sky, arg>>

NextPanchang == GenerateMonthPanchang

SpecPanchang == InitPanchang /\ [][NextPanchang]_vars

(***************************************************************************)
(* The solar specification: for a calendar, a location and a sky, the      *)
(* sankranti into a rashi is found, assigned to its civil day, and that    *)
(* day converted by gregorian_to_solar, as test_solar_month_starts does    *)
(* with the month starts of its tables.                                    *)
(***************************************************************************)

\* The epochs of the sun tried: SunPhases of them through one day, so that
\* a sankranti falls at every time of the day.
SunPhases == 8

SunEpochs ==
    { VernalEquinox + (k * TPD) \div SunPhases : k \in 0..(SunPhases - 1) }

SolarSkies ==
    [ sun0 : SunEpochs, ayan : {Ayan},
      moon0 : {NewMoonAnchor, NewMoonAnchor + SynTicks \div 2},
      anom0 : {NewMoonAnchor - AnomTicks \div 4} ]

SolarLocations == {NEW_DELHI, LOS_ANGELES, AUCKLAND, LONGYEARBYEN}

\* The years tried: a modern one and one before October 1582.
SolarYears == {2025, 1500}

InitSolar ==
    /\ loc \in SolarLocations
    /\ sky \in SolarSkies
    /\ op = "new"
    /\ arg \in [cal_type : CalTypes]
    /\ ret = <<>>
    /\ moon = MoonState_new

\* sankranti_jd from the 14th of the month the rashi begins in, the estimate
\* solar_year makes.
SankrantiJd ==
    /\ op = "new"
    /\ \E year \in SolarYears, rashi \in 1..12 :
         /\ arg' = [cal_type |-> arg.cal_type, year |-> year,
                    rashi |-> rashi]
         /\ ret' = sankranti_jd(
                       gregorian_to_jd(year, approx_greg_month(rashi), 14),
                       (rashi - 1) * 30 * FU)
    /\ op' = "sankranti_jd"
    /\ UNCHANGED <<moon, loc, sky>>

\* sankranti_to_civil_day of the sankranti just found.
SankrantiToCivilDay ==
    /\ op = "sankranti_jd"
    /\ op' = "sankranti_to_civil_day"
    /\ arg' = [cal_type |-> arg.cal_type, year |-> arg.year,
               rashi |-> arg.rashi, jd_sankranti |-> ret]
    /\ ret' = sankranti_to_civil_day(ret, loc, arg.cal_type, arg.rashi)
    /\ UNCHANGED <<moon, loc, sky>>

\* gregorian_to_solar of the civil day just assigned.
GregorianToSolar ==
    /\ op = "sankranti_to_civil_day"
    /\ op' = "gregorian_to_solar"
    /\ arg' = [cal_type |-> arg.cal_type, year |-> arg.year,
               rashi |-> arg.rashi, jd_sankranti |-> arg.jd_sankranti,
               date |-> ret]
    /\ ret' = gregorian_to_solar(ret[1], ret[2], ret[3], loc, arg.cal_type)
    /\ UNCHANGED <<moon, loc, sky>>

\* The civil dates tried: the first and the last day of 2025, and the days
\* about the Mesha and the Simha sankranti.
SolarDates ==
    { <<2025, 1, 1>>, <<2025, 12, 31>> }
    \cup { <<2025, 4, d>> : d \in 13..16 }
    \cup { <<2025, 8, d>> : d \in 15..18 }

\* critical_time_jd of a civil date, as gregorian_to_solar calls it.
CriticalTimeJd ==
    /\ op = "new"
    /\ \E date \in SolarDates :
         /\ arg' = [cal_type |-> arg.cal_type, date |-> date]
         /\ ret' = critical_time_jd(jd_of_date(date), loc, arg.cal_type)
    /\ op' = "critical_time_jd"
    /\ UNCHANGED <<moon, loc, sky>>

\* gregorian_to_solar of the civil date.
GregorianToSolarOnDate ==
    /\ op = "critical_time_jd"
    /\ op' = "gregorian_to_solar_on_date"
    /\ arg' = [cal_type |-> arg.cal_type, date |-> arg.date, jd_crit |-> ret]
    /\ ret' = gregorian_to_solar(arg.date[1], arg.date[2], arg.date[3], loc,
                                 arg.cal_type)
    /\ UNCHANGED <<moon, loc, sky>>

\* gregorian_to_solar of the day before the civil day just assigned: the
\* last day of the previous month.
GregorianToSolarDayBefore ==
    /\ op = "sankranti_to_civil_day"
    /\ op' = "gregorian_to_solar_day_before"
    /\ arg' = [cal_type |-> arg.cal_type, year |-> arg.year,
               rashi |-> arg.rashi, jd_sankranti |-> arg.jd_sankranti,
               date |-> jd_to_gregorian(jd_of_date(ret) - TPD)]
    /\ ret' = solar_on_jd(jd_of_date(ret) - TPD, loc, arg.cal_type)
    /\ UNCHANGED <<moon, loc, sky>>

NextSolar ==
    \/ SankrantiJd
    \/ SankrantiToCivilDay
    \/ GregorianToSolar
    \/ GregorianToSolarDayBefore
    \/ CriticalTimeJd
    \/ GregorianToSolarOnDate

SpecSolar == InitSolar /\ [][NextSolar]_vars

(***************************************************************************)
(* Bounds of the Julian-Day specification.                                 *)
(***************************************************************************)

\* The years tried are YearWindow consecutive years from each anchor.
YearWindow == 2

YearAnchors == {1, 199, 299, 1499, 1581, 1599, 1899, 1999, 2023, 2099, 2998}

JDYears == { a + k : a \in YearAnchors, k \in 0..YearWindow } \cap 1..3000

CivilDates(years) ==
    { <<y, m, d>> : y \in years, m \in 1..12, d \in 1..31 }

IsCivilDate(t) == t[3] <= days_in_month(t[1], t[2])

\* The fixed location and sky of the specifications that use neither.
NoLoc == NEW_DELHI
NoSky == [sun0 |-> VernalEquinox, ayan |-> Ayan, moon0 |-> 0, anom0 |-> 0]

(***************************************************************************)
(* The Julian-Day specification: the round trip of test_roundtrip.         *)
(***************************************************************************)

InitJD ==
    /\ loc = NoLoc
    /\ sky = NoSky
    /\ op = "new"
    /\ arg \in { t \in CivilDates(JDYears) : IsCivilDate(t) }
    /\ ret = <<>>
    /\ moon = MoonState_new

\* let jd = gregorian_to_jd(y, m, d)
GregorianToJd ==
    /\ op = "new"
    /\ op' = "gregorian_to_jd"
    /\ ret' = gregorian_to_jd(arg[1], arg[2], arg[3])
    /\ UNCHANGED <<moon, loc, sky, arg>>

\* let (y, m, d) = jd_to_gregorian(jd), of the jd just computed
JdToGregorian ==
    /\ op = "gregorian_to_jd"
    /\ op' = "jd_to_gregorian"
    /\ arg' = [jd |-> ret, from |-> arg]
    /\ ret' = jd_to_gregorian(ret)
    /\ UNCHANGED <<moon, loc, sky>>

\* The times of day tried by day_of_week, in ticks after 0h UT.
DayTimes == {0, TPD \div 2 - 1, TPD \div 2, TPD - 1}

\* day_of_week(jd), at a time of the civil day whose 0h was just computed
DayOfWeek ==
    /\ op = "gregorian_to_jd"
    /\ op' = "day_of_week"
    /\ \E h \in DayTimes :
         /\ arg' = [jd |-> ret + h, from |-> arg]
         /\ ret' = day_of_week(ret + h)
    /\ UNCHANGED <<moon, loc, sky>>

NextJD == GregorianToJd \/ JdToGregorian \/ DayOfWeek

SpecJD == InitJD /\ [][NextJD]_vars

(***************************************************************************)
(* C1.  For every Gregorian date (y, m, d) with y in 1..3000, dates before *)
(* 1582-10-15 included, jd_to_gregorian(gregorian_to_jd(y, m, d)) is       *)
(* (y, m, d).                                                              *)
(***************************************************************************)
C1_RoundTrip ==
    op = "jd_to_gregorian" => ret = arg.from

(***************************************************************************)
(* The claims on generate_month_panchang.  LastDay is the PanchangDay the  *)
(* loop pushed last, PrevDay the one before it.                            *)
(***************************************************************************)

Pushed == op = "generate_month_panchang"

LastDay == ret[Len(ret)]

PrevDay == ret[Len(ret) - 1]

\* masa_for_date of the day pushed last, as gregorian_to_hindu calls it.
LastMasa == masa_for_date(arg.year, arg.month, Len(ret), loc)

(***************************************************************************)
(* C2.  At every sunrise tithi_at_sunrise returns tithi_num in 1..30,      *)
(* paksha Shukla exactly when tithi_num <= 15 and Krishna otherwise, and   *)
(* paksha_tithi in 1..15: tithi_num when tithi_num <= 15, tithi_num - 15   *)
(* otherwise.                                                              *)
(***************************************************************************)
C2_TithiPartition ==
    Pushed =>
        LET ti == LastDay.tithi
        IN  /\ ti.tithi_num \in 1..30
            /\ ti.paksha \in {"Shukla", "Krishna"}
            /\ ti.paksha = "Shukla" <=> ti.tithi_num <= 15
            /\ ti.paksha_tithi \in 1..15
            /\ ti.paksha_tithi =
                 IF ti.tithi_num <= 15 THEN ti.tithi_num ELSE ti.tithi_num - 15

\* A day whose sun rises during the last tithi of the month.
C2_Amavasya ==
    /\ Pushed
    /\ LastDay.jd_sunrise > 0
    /\ LastDay.tithi.tithi_num = 30
    /\ LastDay.tithi.paksha = "Krishna"
    /\ LastDay.tithi.paksha_tithi = 15

(***************************************************************************)
(* C3.  masa_for_date sets is_adhika exactly when the sidereal rashi of    *)
(* the sun at the new moon before the day's sunrise is the rashi at the    *)
(* new moon after it, and gregorian_to_hindu hands the flag on unchanged   *)
(* as is_adhika_masa.                                                      *)
(***************************************************************************)
C3_AdhikaMasa ==
    Pushed =>
        LET mi == LastMasa
        IN  /\ mi.is_adhika
                 <=> solar_rashi(mi.jd_start) = solar_rashi(mi.jd_end)
            /\ LastDay.hindu_date.is_adhika_masa = mi.is_adhika

\* A day of an intercalary month: both new moons in one rashi.
C3_InAdhikaMasa ==
    /\ Pushed
    /\ LastDay.hindu_date.is_adhika_masa
    /\ LET mi == LastMasa
       IN  solar_rashi(mi.jd_start) = solar_rashi(mi.jd_end)

(***************************************************************************)
(* C4.  The masa number of masa_for_date is (rashi_last mod 12) + 1, with  *)
(* rashi_last in 1..12 the rashi at the last new moon: it is in 1..12, and *)
(* MasaName::from_number is never handed a number of its default arm.      *)
(***************************************************************************)
C4_MasaNumber ==
    Pushed =>
        LET mi         == LastMasa
            rashi_last == solar_rashi(mi.jd_start)
        IN  /\ rashi_last \in 1..12
            /\ mi.masa_num \in 1..12
            /\ number(mi.name) = (rashi_last % 12) + 1
            /\ LastDay.hindu_date.masa = mi.name

\* A day after a new moon in Mina, rashi 12: the month is Chaitra.
C4_MinaGivesChaitra ==
    /\ Pushed
    /\ LastDay.hindu_date.masa = "Chaitra"
    /\ solar_rashi(LastMasa.jd_start) = 12

(***************************************************************************)
(* C8.  tithi_at_sunrise sets is_kshaya exactly when the tithi t' at the   *)
(* next civil day's sunrise has ((t' - t) mod 30) > 1, t being the day's   *)
(* own sunrise tithi.  Read on two consecutive days of the month: t and    *)
(* is_kshaya of the first, t' of the second.                               *)
(***************************************************************************)
C8_KshayaIff ==
    Pushed /\ Len(ret) > 1 =>
        ( PrevDay.tithi.is_kshaya
            <=> (LastDay.tithi.tithi_num - PrevDay.tithi.tithi_num) % 30 > 1 )

(***************************************************************************)
(* C9.  gregorian_to_hindu sets is_adhika_tithi exactly when the day of    *)
(* the month d is greater than 1 and tithi_at_sunrise gives day d the      *)
(* tithi_num it gives day d - 1; on day 1 the flag is false.               *)
(***************************************************************************)
C9_AdhikaTithi ==
    Pushed =>
        ( LastDay.hindu_date.is_adhika_tithi
            <=> /\ Len(ret) > 1
                /\ LastDay.tithi.tithi_num = PrevDay.tithi.tithi_num )

\* A day that repeats the tithi of the day before and is flagged.
C9_RepeatedTithi ==
    /\ Pushed
    /\ Len(ret) > 1
    /\ LastDay.tithi.tithi_num = PrevDay.tithi.tithi_num
    /\ LastDay.hindu_date.is_adhika_tithi

(***************************************************************************)
(* C10.  For consecutive days d - 1 and d of one month at one location: if *)
(* gregorian_to_hindu flags day d as adhika-tithi, tithi_at_sunrise of day *)
(* d - 1 has is_kshaya false, the fallback sunrise of a day without        *)
(* sunrise included.                                                       *)
(***************************************************************************)
C10_AdhikaNotKshaya ==
    Pushed /\ Len(ret) > 1 /\ LastDay.hindu_date.is_adhika_tithi
        => ~PrevDay.tithi.is_kshaya

\* An adhika-tithi day whose sunrise is unavailable, the fallback used.
C10_AdhikaOnFallback ==
    /\ Pushed
    /\ Len(ret) > 1
    /\ LastDay.hindu_date.is_adhika_tithi
    /\ LastDay.jd_sunrise = 0
    /\ ~PrevDay.tithi.is_kshaya

(***************************************************************************)
(* The claims on the solar calendars.  The dates of the claims are dates   *)
(* of the proleptic Gregorian calendar: CivilDate(z) is the date whose     *)
(* day begins at JD z - 0.5, the inverse of julday.                        *)
(***************************************************************************)

CivilDate(z) ==
    LET alpha == FloorDiv(4 * z - 7468865, 146097)
        a     == z + 1 + alpha - FloorDiv(alpha, 4)
        b     == a + 1524
        c     == FloorDiv(20 * b - 2442, 7305)
        d     == FloorDiv(1461 * c, 4)
        e     == FloorDiv((b - d) * 10000, 306001)
        day   == b - d - FloorDiv(306001 * e, 10000)
        month == IF e < 14 THEN e - 1 ELSE e - 13
        year  == IF month > 2 THEN c - 4716 ELSE c - 4715
    IN  <<year, month, day>>

\* The Julian Day number of the local calendar date of the sankranti of
\* arg, and its critical time computed on that date.
LocalDayNumber ==
    FloorDiv(arg.jd_sankranti + loc.utc_offset + TPD \div 2, TPD)

CritOnLocalDate ==
    LET D == CivilDate(LocalDayNumber)
    IN  critical_time_jd(gregorian_to_jd(D[1], D[2], D[3]), loc, arg.cal_type)

\* The condition of the Bengali override on the sankranti of arg.
BengaliPush ==
    /\ arg.rashi # 4
    /\ \/ arg.rashi = 10
       \/ LET p == CivilDate(LocalDayNumber - 1)
          IN  tithi_at_sunrise(p[1], p[2], p[3], loc).jd_end
                <= arg.jd_sankranti

\* The civil day of the critical-time rule alone.
CriticalTimeDay ==
    IF arg.jd_sankranti <= CritOnLocalDate
    THEN CivilDate(LocalDayNumber)
    ELSE CivilDate(LocalDayNumber + 1)

(***************************************************************************)
(* C5.  For every calendar and every sankranti, gregorian_to_solar of the  *)
(* civil date that sankranti_to_civil_day assigns to the sankranti returns *)
(* day 1, in the month of the rashi entered.                               *)
(***************************************************************************)
C5_SolarDayOne ==
    op = "gregorian_to_solar" =>
        /\ ret.day = 1
        /\ ret.rashi = arg.rashi
        /\ ret.month = ((arg.rashi - first_rashi(arg.cal_type) + 12) % 12) + 1

(***************************************************************************)
(* C6.  For Tamil, Odia and Malayalam, and for Bengali when the override   *)
(* does not apply, sankranti_to_civil_day returns the local calendar date  *)
(* D of the sankranti when JD_sankranti <= the critical time computed on   *)
(* D, and D + 1 otherwise: never another date.                             *)
(***************************************************************************)
C6_CivilDayRule ==
    /\ op = "sankranti_to_civil_day"
    /\ arg.cal_type = "Bengali" => ~BengaliPush
    => ret = CriticalTimeDay

(***************************************************************************)
(* C7.  Bengali: when the sankranti is into a rashi other than 4 and the   *)
(* rashi is 10 or the sunrise tithi of the day before the sankranti's      *)
(* local date ends at or before the sankranti, day 1 is the civil date     *)
(* after the sankranti's local date; for rashi 4 the override is never     *)
(* applied.                                                                *)
(***************************************************************************)
C7_BengaliOverride ==
    op = "sankranti_to_civil_day" /\ arg.cal_type = "Bengali" =>
        /\ BengaliPush => ret = CivilDate(LocalDayNumber + 1)
        /\ arg.rashi = 4 => ret = CriticalTimeDay

(***************************************************************************)
(* C11.  On a day whose sunrise_jd is the sentinel 0, every dependent      *)
(* computes with the approximation JD_civil + 0.5 - utc_offset / 24        *)
(* instead: the sunrise tithi of the day, its masa, the jd_sunrise that    *)
(* generate_month_panchang stores, and the kshaya check the day before     *)
(* makes on this sunrise.                                                  *)
(***************************************************************************)
C11_SentinelFallback ==
    Pushed =>
        LET jd == gregorian_to_jd(arg.year, arg.month, Len(ret))
            fb == jd + TPD \div 2 - loc.utc_offset
        IN  sunrise_jd(jd, loc) <= 0 =>
              /\ LastDay.tithi.tithi_num = tithi_at_moment(fb)
              /\ LastMasa.jd_start = new_moon_before(fb, tithi_at_moment(fb))
              /\ LastDay.jd_sunrise = fb
              /\ Len(ret) > 1 =>
                   ( PrevDay.tithi.is_kshaya
                       <=> kshaya_diff(tithi_at_moment(fb),
                                       PrevDay.tithi.tithi_num) > 1 )

(***************************************************************************)
(* The rise/set specification: rise::sunrise and rise::sunset at a moment  *)
(* of a January day, at a location.                                        *)
(***************************************************************************)

\* The days tried: RiseDays days from three days before PolarOnsetDay.
RiseDays == 6

RiseMoments ==
    { julday(2025, 1, PolarOnsetDay - 3 + d) + k * 3 * Hour :
        d \in 0..RiseDays, k \in 0..7 }

\* The locations: those of the panchang specification, one far east where
\* the sun rises after 18:00 UT, then a location
\* whose polar night ends on day PolarOnsetDay, a location where the sun
\* grazes the horizon (the corrections of the refinement alternate and never
\* fall below the threshold), and a location where the denominator of the
\* first correction vanishes.
RiseLocations ==
    { NEW_DELHI, LOS_ANGELES, AUCKLAND, LONGYEARBYEN, TROMSO(2025, 1),
      [ utc_offset |-> Hour, m_rise |-> 300, m_set |-> 390,
        polar_from |-> AlwaysPolar,
        polar_until |-> julday(2025, 1, PolarOnsetDay) + TPD \div 2,
        dm0 |-> 1, osc |-> FALSE, flat_at |-> 0 ],
      [ utc_offset |-> Hour, m_rise |-> 330, m_set |-> 360,
        polar_from |-> NoPolar, polar_until |-> NoPolar,
        dm0 |-> 3, osc |-> TRUE, flat_at |-> 0 ],
      [ utc_offset |-> Hour, m_rise |-> 330, m_set |-> 360,
        polar_from |-> NoPolar, polar_until |-> NoPolar,
        dm0 |-> 3, osc |-> FALSE, flat_at |-> 1 ] }

InitRise ==
    /\ loc \in RiseLocations
    /\ sky = NoSky
    /\ op = "new"
    /\ arg \in [jd_ut : RiseMoments]
    /\ ret = <<>>
    /\ moon = MoonState_new

Sunrise ==
    /\ op = "new"
    /\ op' = "sunrise"
    /\ ret' = sunrise(loc, arg.jd_ut)
    /\ UNCHANGED <<moon, loc, sky, arg>>

Sunset ==
    /\ op = "new"
    /\ op' = "sunset"
    /\ ret' = sunset(loc, arg.jd_ut)
    /\ UNCHANGED <<moon, loc, sky, arg>>

NextRise == Sunrise \/ Sunset

SpecRise == InitRise /\ [][NextRise]_vars

\* The 0h of the date of arg.jd_ut: the target date of rise_set.
TargetDay == julday_of(revjul(arg.jd_ut))

\* The refinement at l converges: within its RefineSteps turns a correction
\* falls below the threshold, no denominator having vanished before.
Converges(l) ==
    \E k \in 1..RefineSteps :
        Dm(l, k) = 0 /\ \A j \in 1..k : l.flat_at # j

(***************************************************************************)
(* C12.  sunrise and sunset return 0 whenever the sun neither rises nor    *)
(* sets on the target date (hour-angle cosine outside [-1, 1]) and         *)
(* whenever the refinement has not converged within its 10 turns: a result *)
(* other than 0 is a converged rise or set of a target date that has one.  *)
(***************************************************************************)
C12_RiseSentinel ==
    op \in {"sunrise", "sunset"} =>
        /\ Circumpolar(loc, TargetDay) => ret = 0
        /\ ~Converges(loc) => ret = 0
        /\ ret # 0 => ~Circumpolar(loc, TargetDay) /\ Converges(loc)

(***************************************************************************)
(* The moon specification: calls of Ephemeris::lunar_longitude, one after  *)
(* the other on one instance, each at a day of its own choice.             *)
(***************************************************************************)

\* The days of the calls: MoonDays days from J2000.
MoonDays == 12

MoonDates == { J2000 + k * TPD + TPD \div 2 : k \in 0..MoonDays }

InitMoon ==
    /\ loc = NoLoc
    /\ sky = NoSky
    /\ op = "new"
    \* jd_ut 0: no call made yet.
    /\ arg = [jd_ut |-> 0, prev |-> 0]
    /\ ret = <<>>
    /\ moon = MoonState_new

LunarLongitude ==
    \E jd_ut \in MoonDates :
        /\ op' = "lunar_longitude"
        /\ arg' = [jd_ut |-> jd_ut, prev |-> arg.jd_ut]
        /\ moon' = lunar_longitude_state(moon, jd_ut)
        /\ ret' = lunar_longitude_on(moon, jd_ut)
        /\ UNCHANGED <<loc, sky>>

NextMoon == LunarLongitude

SpecMoon == InitMoon /\ [][NextMoon]_vars

(***************************************************************************)
(* C13.  After any sequence of calls on one instance, lunar_longitude      *)
(* returns what it returns on a fresh instance, and leaves the MoonState   *)
(* that it leaves on a fresh instance: no field that a call reads holds a  *)
(* value of an earlier call.                                               *)
(***************************************************************************)
C13_MoonStateless ==
    op = "lunar_longitude" =>
        /\ ret = lunar_longitude_on(MoonState_new, arg.jd_ut)
        /\ moon = lunar_longitude_state(MoonState_new, arg.jd_ut)

\* A call after a call at another day, which left other values in t2, in
\* the arguments and in the tables, and returned another longitude.
C13_AfterOtherCall ==
    /\ op = "lunar_longitude"
    /\ arg.prev # 0
    /\ LET before == lunar_longitude_state(MoonState_new, arg.prev)
       IN  /\ before.t2 # moon.t2
           /\ before.d # moon.d
           /\ before.ss # moon.ss
           /\ before.cc # moon.cc
           /\ lunar_longitude_on(MoonState_new, arg.prev) # ret

(***************************************************************************)
(* The step specification: the loops of the core operations, turn by turn. *)
(* arg is the frame of the one call of the behaviour: its locals at the    *)
(* head of its loop (or, for gregorian_to_solar, at `if sd_day <= 0`), the *)
(* turns taken so far, the attempts of rise_set and the retreats of        *)
(* gregorian_to_solar.  op is "return" once the call has returned,   *)
(* and ret then holds the one value returned.                              *)
(***************************************************************************)

\* The moments the calls are made at: StepDays days from 12 April 2025,
\* the days about the Mesha sankranti.
StepDays == 4

StepMoments ==
    { gregorian_to_jd(2025, 4, 12) + d * TPD + h * 6 * Hour :
        d \in 0..(StepDays - 1), h \in 0..3 }

\* The calls.  rise_set, at every location: the frame at the head of the
\* loop of the first attempt.  At New Delhi only (no location enters their
\* frames): gregorian_to_solar at `if sd_day <= 0`, with the rashi, the day
\* of the month counted from the sankranti found first and the day that the
\* block of the `if` would count from the sankranti before it; and the two
\* bisections at the head of their loops.
InitSteps ==
    /\ loc \in RiseLocations
    /\ sky \in { s \in SolarSkies :
                    /\ s.moon0 = NewMoonAnchor
                    /\ 4 * (s.sun0 - VernalEquinox) < TPD }
    /\ op = "new"
    /\ arg \in
         { [ fn |-> "rise_set", jd_ut |-> jd_ut,
             jd_0h |-> julday_of(revjul(jd_ut)), is_rise |-> is_rise,
             attempt |-> 1, turn |-> 0, m |-> MInit(loc, is_rise),
             looping |-> ~Circumpolar(loc, julday_of(revjul(jd_ut))) ] :
             jd_ut \in { julday(2025, 1, PolarOnsetDay - 1) + h * 12 * Hour :
                           h \in 0..3 },
             is_rise \in BOOLEAN }
         \cup IF loc # NEW_DELHI THEN {}
              ELSE [ fn : {"gregorian_to_solar"}, cal_type : CalTypes,
                     rashi : {1, 2, 12}, sd_day : -1..2,
                     previous_sd_day : {0, 30, 32},
                     retreats : {0}, pc : {"if"} ]
                   \cup { [ fn |-> "find_tithi_boundary",
                            lo |-> jd - 2 * TPD, hi |-> jd,
                            target_phase |-> (t - 1) * 12 * FU,
                            turn |-> 0 ] :
                            jd \in {gregorian_to_jd(2025, 4, 12)
                                      + TPD \div 2},
                            t \in {1, 16, 30} }
                   \cup { [ fn |-> "sankranti_jd",
                            lo |-> sankranti_lo(jd - 20 * TPD, 0),
                            hi |-> jd + 20 * TPD, target_longitude |-> 0,
                            turn |-> 0 ] :
                            jd \in StepMoments }
    /\ ret = <<>>
    /\ moon = MoonState_new

\* A find_tithi_boundary that leaves its loop once the bracket is one
\* grid step wide.
FindTithiBoundaryUntilFixed ==
    /\ arg.fn = "find_tithi_boundary"
    /\ op # "return"
    /\ IF arg.turn < BisectSteps /\ arg.hi - arg.lo > 1
       THEN /\ arg' = [arg EXCEPT
                         !.lo = IF SignedDiff(lunar_phase(Mid(arg.lo, arg.hi)),
                                              arg.target_phase) >= 0
                                THEN @ ELSE Mid(arg.lo, arg.hi),
                         !.hi = IF SignedDiff(lunar_phase(Mid(arg.lo, arg.hi)),
                                              arg.target_phase) >= 0
                                THEN Mid(arg.lo, arg.hi) ELSE @,
                         !.turn = @ + 1]
            /\ op' = arg.fn
            /\ ret' = ret
       ELSE /\ ret' = << Mid(arg.lo, arg.hi) >>
            /\ arg' = arg
            /\ op' = "return"
    /\ UNCHANGED <<moon, loc, sky>>

\* find_tithi_boundary: a turn of `for _ in 0..50`, or, the 50 turns taken,
\* the return of `(lo + hi) / 2.0`.
FindTithiBoundaryStep ==
    /\ arg.fn = "find_tithi_boundary"
    /\ op # "return"
    /\ IF arg.turn < BisectSteps
       THEN /\ arg' = [arg EXCEPT
                         !.lo = IF SignedDiff(lunar_phase(Mid(arg.lo, arg.hi)),
                                              arg.target_phase) >= 0
                                THEN @ ELSE Mid(arg.lo, arg.hi),
                         !.hi = IF SignedDiff(lunar_phase(Mid(arg.lo, arg.hi)),
                                              arg.target_phase) >= 0
                                THEN Mid(arg.lo, arg.hi) ELSE @,
                         !.turn = @ + 1]
            /\ op' = arg.fn
            /\ ret' = ret
       ELSE /\ ret' = << Mid(arg.lo, arg.hi) >>
            /\ arg' = arg
            /\ op' = "return"
    /\ UNCHANGED <<moon, loc, sky>>

\* sankranti_jd: a turn of `for _ in 0..50`, or the return.
SankrantiJdStep ==
    /\ arg.fn = "sankranti_jd"
    /\ op # "return"
    /\ IF arg.turn < SankrantiSteps
       THEN /\ arg' = [arg EXCEPT
                         !.lo = IF SignedDiff(
                                     solar_longitude_sidereal(
                                         Mid(arg.lo, arg.hi)),
                                     arg.target_longitude) >= 0
                                THEN @ ELSE Mid(arg.lo, arg.hi),
                         !.hi = IF SignedDiff(
                                     solar_longitude_sidereal(
                                         Mid(arg.lo, arg.hi)),
                                     arg.target_longitude) >= 0
                                THEN Mid(arg.lo, arg.hi) ELSE @,
                         !.turn = @ + 1]
            /\ op' = arg.fn
            /\ ret' = ret
       ELSE /\ ret' = << Mid(arg.lo, arg.hi) >>
            /\ arg' = arg
            /\ op' = "return"
    /\ UNCHANGED <<moon, loc, sky>>

\* rise_set: a turn of `for _ in 0..10` of rise_set_for_date (left at either
\* break), or the end of the attempt with its result (0 on a circumpolar
\* day, jd_0h + m otherwise): the return of the result, or, after the first
\* attempt only, the attempt on the next day.
RiseSetStep ==
    /\ arg.fn = "rise_set"
    /\ op # "return"
    /\ IF arg.looping /\ arg.turn < RefineSteps
       THEN /\ arg' = IF loc.flat_at = arg.turn + 1
                      THEN [arg EXCEPT !.turn = @ + 1, !.looping = FALSE]
                      ELSE [arg EXCEPT
                              !.turn = @ + 1,
                              !.m = @ + Dm(loc, arg.turn + 1),
                              !.looping = Dm(loc, arg.turn + 1) # 0]
            /\ op' = arg.fn
            /\ ret' = ret
       ELSE IF arg.attempt = 1
               /\ ~(/\ ~Circumpolar(loc, arg.jd_0h)
                    /\ arg.jd_0h + wrap_midnight(arg.m, arg.is_rise) > 0
                    /\ arg.jd_0h + wrap_midnight(arg.m, arg.is_rise)
                         >= arg.jd_ut - RetryEps)
       THEN /\ arg' = [arg EXCEPT
                         !.jd_0h = @ + TPD, !.attempt = 2, !.turn = 0,
                         !.m = MInit(loc, arg.is_rise),
                         !.looping = ~Circumpolar(loc, arg.jd_0h + TPD)]
            /\ op' = arg.fn
            /\ ret' = ret
       ELSE /\ ret' = << IF Circumpolar(loc, arg.jd_0h) THEN 0
                         ELSE arg.jd_0h
                              + wrap_midnight(arg.m, arg.is_rise) >>
            /\ arg' = arg
            /\ op' = "return"
    /\ UNCHANGED <<moon, loc, sky>>

\* gregorian_to_solar: the statement `if sd_day <= 0 { ... }`, then the
\* return of the SolarDate (its month, day and rashi).
GregorianToSolarStep ==
    /\ arg.fn = "gregorian_to_solar"
    /\ op # "return"
    /\ IF arg.pc = "if"
       THEN /\ arg' = IF arg.sd_day <= 0
                      THEN [ arg EXCEPT
                               !.rashi = IF @ = 1 THEN 12 ELSE @ - 1,
                               !.sd_day = arg.previous_sd_day,
                               !.retreats = @ + 1,
                               !.pc = "end" ]
                      ELSE [arg EXCEPT !.pc = "end"]
            /\ op' = arg.fn
            /\ ret' = ret
       ELSE /\ ret' = << [ month |-> rashi_to_regional_month(arg.rashi,
                                                             arg.cal_type),
                           day |-> arg.sd_day,
                           rashi |-> arg.rashi ] >>
            /\ arg' = arg
            /\ op' = "return"
    /\ UNCHANGED <<moon, loc, sky>>

NextSteps ==
    \/ FindTithiBoundaryStep
    \/ SankrantiJdStep
    \/ RiseSetStep
    \/ GregorianToSolarStep

\* A call runs on until it returns: there is no cancellation.
SpecSteps == InitSteps /\ [][NextSteps]_vars /\ WF_vars(NextSteps)

\* The counts of the frame are within their limits.
StepBounds ==
    /\ arg.fn = "find_tithi_boundary" =>
         arg.turn <= BisectSteps /\ (op = "return" => arg.turn = BisectSteps)
    /\ arg.fn = "sankranti_jd" =>
         arg.turn <= SankrantiSteps /\ (op = "return" => arg.turn = SankrantiSteps)
    /\ arg.fn = "rise_set" => arg.turn <= RefineSteps /\ arg.attempt <= 2
    /\ arg.fn = "gregorian_to_solar" => arg.retreats <= 1

(***************************************************************************)
(* C14.  Every core operation returns, after a bounded number of steps:    *)
(* find_tithi_boundary and sankranti_jd after exactly 50 turns of their    *)
(* bisection, rise_set after at most two attempts of at most 10 turns, and *)
(* gregorian_to_solar after at most one retreat to the previous rashi.     *)
(***************************************************************************)
C14_BoundedSteps == [] StepBounds /\ <>(op = "return")

\* A call has returned after the most its limits allow: a second attempt
\* of rise_set that took all its turns.
C14_SecondAttemptExhausted ==
    /\ op = "return"
    /\ arg.fn = "rise_set"
    /\ arg.attempt = 2
    /\ arg.turn = RefineSteps

(***************************************************************************)
(* C15.  critical_time_jd of a civil date whose 0h is J, at a location     *)
(* with UTC offset u, is sunset_jd(J) less 8 minutes for Tamil, J - u/24   *)
(* plus 24 minutes for Bengali, and for Malayalam the JD nearest to        *)
(* sunrise_jd(J) + 0.6 * (sunset_jd(J) - sunrise_jd(J)) less 9.5 minutes.  *)
(* A minute is 1/1440 day.                                                 *)
(***************************************************************************)
C15_CriticalTimes ==
    op = "critical_time_jd" =>
        LET J  == gregorian_to_jd(arg.date[1], arg.date[2], arg.date[3])
            sr == sunrise_jd(J, loc)
            ss == sunset_jd(J, loc)
        IN  /\ arg.cal_type = "Tamil" => 1440 * (ret - ss) = -8 * TPD
            /\ arg.cal_type = "Bengali" =>
                 1440 * (ret - (J - loc.utc_offset)) = 24 * TPD
            /\ arg.cal_type = "Malayalam" =>
                 /\ 2 * (10 * 1440 * (ret - sr) - 6 * 1440 * (ss - sr)
                           + 95 * TPD) <= 10 * 1440
                 /\ 2 * (10 * 1440 * (ret - sr) - 6 * 1440 * (ss - sr)
                           + 95 * TPD) >= -10 * 1440

\* The Malayalam critical time of a day with a sunrise and a sunset, which
\* is past the middle of the day.
C15_MalayalamAfternoon ==
    /\ op = "critical_time_jd"
    /\ arg.cal_type = "Malayalam"
    /\ LET J == gregorian_to_jd(arg.date[1], arg.date[2], arg.date[3])
       IN  /\ sunrise_jd(J, loc) > 0
           /\ sunrise_jd(J, loc) < sunset_jd(J, loc)
           /\ ret - sunrise_jd(J, loc) > sunset_jd(J, loc) - ret

(***************************************************************************)
(* C16.  For Odia, critical_time_jd of a civil date is 16:42 local time of *)
(* that date: the local midnight that begins the date, J - u/24, plus 16.7 *)
(* hours, whatever the UTC offset u of the location.                       *)
(***************************************************************************)
C16_OdiaLocalTime ==
    op = "critical_time_jd" /\ arg.cal_type = "Odia" =>
        10 * (ret - (gregorian_to_jd(arg.date[1], arg.date[2], arg.date[3])
                       - loc.utc_offset))
          = 167 * Hour

(***************************************************************************)
(* C17.  The regional month of a rashi is ((rashi - first_rashi) mod 12)   *)
(* + 1, with first_rashi 1 for Tamil, Bengali and Odia and 5 for           *)
(* Malayalam: every SolarDate returned has that month for its rashi, the   *)
(* month is in 1..12, and for each calendar the rashis 1..12 are mapped    *)
(* one-to-one onto the months 1..12.                                       *)
(***************************************************************************)
C17_RegionalMonth ==
    /\ op \in {"gregorian_to_solar", "gregorian_to_solar_on_date"} =>
         /\ ret.month = ((ret.rashi - (IF arg.cal_type = "Malayalam"
                                        THEN 5 ELSE 1)) % 12) + 1
         /\ ret.month \in 1..12
    /\ \A c \in CalTypes :
         /\ \A r \in 1..12 :
              rashi_to_regional_month(r, c) =
                  ((r - (IF c = "Malayalam" THEN 5 ELSE 1)) % 12) + 1
         /\ {rashi_to_regional_month(r, c) : r \in 1..12} = 1..12
         /\ \A r1, r2 \in 1..12 :
              rashi_to_regional_month(r1, c) = rashi_to_regional_month(r2, c)
                  => r1 = r2

\* A Malayalam date in a rashi before Simha: the month number wraps.
C17_MalayalamWraps ==
    /\ op = "gregorian_to_solar_on_date"
    /\ arg.cal_type = "Malayalam"
    /\ ret.rashi < 5
    /\ ret.month = ret.rashi + 8

(***************************************************************************)
(* C18.  With Y the Gregorian year of the civil date given to              *)
(* gregorian_to_solar, the year returned is Y - gy_offset_on when the date *)
(* is on or after the civil day of the first-rashi ingress of year Y, and  *)
(* Y - gy_offset_before otherwise, also when the critical time of the date *)
(* falls on another UT day or year than the civil date.                    *)
(***************************************************************************)
C18_SolarYear ==
    op \in {"gregorian_to_solar", "gregorian_to_solar_on_date"} =>
        LET Y       == arg.date[1]
            first   == IF arg.cal_type = "Malayalam" THEN 5 ELSE 1
            ingress == sankranti_jd(
                           gregorian_to_jd(Y, approx_greg_month(first), 14),
                           (first - 1) * 30 * FU)
            start   == sankranti_to_civil_day(ingress, loc, arg.cal_type,
                                              first)
        IN  ret.year =
                IF gregorian_to_jd(arg.date[1], arg.date[2], arg.date[3])
                       >= gregorian_to_jd(start[1], start[2], start[3])
                THEN Y - gy_offset_on(arg.cal_type)
                ELSE Y - gy_offset_before(arg.cal_type)

(***************************************************************************)
(* C19.  Every SolarDate gregorian_to_solar returns has month in 1..12,    *)
(* rashi in 1..12 and day >= 1: when the day computed from the sankranti   *)
(* at or before the critical time is <= 0, the one retreat to the previous *)
(* rashi gives a day >= 1.                                                 *)
(***************************************************************************)
C19_SolarDateRange ==
    op \in {"gregorian_to_solar", "gregorian_to_solar_day_before",
            "gregorian_to_solar_on_date"} =>
        /\ ret.month \in 1..12
        /\ ret.rashi \in 1..12
        /\ ret.day >= 1

\* A date of 2025 on which the rashi at the critical time is already the
\* next one while its month begins on the day after: the retreat was taken.
C19_RetreatTaken ==
    /\ op = "gregorian_to_solar_day_before"
    /\ arg.date[1] = 2025
    /\ ret.rashi # rashi_of_longitude(solar_longitude_sidereal(
                       critical_time_jd(jd_of_date(arg.date), loc,
                                        arg.cal_type)))
    /\ ret.day >= 28

(***************************************************************************)
(* lunar_phase and solar_longitude_sidereal as functions of the JD alone:  *)
(* one sky, and the moments about a new moon and about the sun's passage   *)
(* through 0 degrees of sidereal longitude.                                *)
(***************************************************************************)

\* The moments tried lie within PhaseSpan ticks of the two passages.
PhaseSpan == 40

PhaseSky ==
    [ sun0 |-> VernalEquinox, ayan |-> Ayan, moon0 |-> NewMoonAnchor,
      anom0 |-> NewMoonAnchor - AnomTicks \div 4 ]

PhaseMoments ==
    { NewMoonAnchor + d : d \in -PhaseSpan..PhaseSpan }
    \cup { VernalEquinox + (Ayan * YearTicks) \div Full + d :
             d \in -PhaseSpan..PhaseSpan }

InitPhase ==
    /\ loc = NoLoc
    /\ sky = PhaseSky
    /\ op = "new"
    /\ arg \in [jd_ut : PhaseMoments]
    /\ ret = <<>>
    /\ moon = MoonState_new

LunarPhase ==
    /\ op = "new"
    /\ op' = "lunar_phase"
    /\ ret' = lunar_phase(arg.jd_ut)
    /\ UNCHANGED <<arg, moon, loc, sky>>

SolarLongitudeSidereal ==
    /\ op = "new"
    /\ op' = "solar_longitude_sidereal"
    /\ ret' = solar_longitude_sidereal(arg.jd_ut)
    /\ UNCHANGED <<arg, moon, loc, sky>>

NextPhase == LunarPhase \/ SolarLongitudeSidereal

SpecPhase == InitPhase /\ [][NextPhase]_vars

(***************************************************************************)
(* C20.  For every JD, lunar_phase(JD) and solar_longitude_sidereal(JD)    *)
(* are in [0, 360): 360 itself is never returned, also when the difference *)
(* before the normalisation is a tiny negative number.                     *)
(***************************************************************************)
C20_PhaseRange ==
    op \in {"lunar_phase", "solar_longitude_sidereal"} =>
        0 <= ret /\ ret < Full

(***************************************************************************)
(* C21.  day_of_week(jd) is in 0..6 with 0 = Monday for every JD, also     *)
(* before the reference epoch where the floor is negative; it advances by  *)
(* exactly 1 modulo 7 from each civil day to the next; and it is 2         *)
(* (Wednesday) for gregorian_to_jd(2025, 1, 1).                            *)
(***************************************************************************)
C21_DayOfWeek ==
    op = "day_of_week" =>
        /\ ret \in 0..6
        /\ day_of_week(arg.jd + TPD) = (ret + 1) % 7
        /\ arg.from = <<2025, 1, 1>> => ret = 2
        /\ arg.from = <<2024, 1, 1>> => ret = 0
        /\ arg.from = <<1582, 10, 15>> => ret = 4

\* A Sunday before the reference epoch: the floor is negative and its
\* remainder -1.
C21_SundayBeforeEpoch ==
    /\ op = "day_of_week"
    /\ arg.jd < 2433282 * TPD
    /\ day_of_week_rem(arg.jd) = -1
    /\ ret = 6

(***************************************************************************)
(* C22.  gregorian_to_jd(2000, 1, 1) is 2451544.5, and for every pair of   *)
(* consecutive Gregorian calendar dates with year >= 1 (across month ends, *)
(* year ends, leap and non-leap Februaries and century years) the JD of    *)
(* the later date is exactly 1 greater than the JD of the earlier one.     *)
(***************************************************************************)
C22_ConsecutiveDates ==
    op = "gregorian_to_jd" =>
        LET y    == arg[1]
            mo   == arg[2]
            d    == arg[3]
            next == IF d < days_in_month(y, mo) THEN <<y, mo, d + 1>>
                    ELSE IF mo < 12 THEN <<y, mo + 1, 1>>
                    ELSE <<y + 1, 1, 1>>
        IN  /\ gregorian_to_jd(next[1], next[2], next[3]) = ret + TPD
            /\ arg = <<2000, 1, 1>> => ret = 2451544 * TPD + TPD \div 2

\* The last day of February in a century year that is not a leap year.
C22_CenturyFebruary ==
    /\ op = "gregorian_to_jd"
    /\ arg = <<1900, 2, 28>>
    /\ gregorian_to_jd(1900, 3, 1) = ret + TPD

(***************************************************************************)
(* bin/hindu_calendar.rs: main, called with -y, -m and -d, at the default  *)
(* location and without -s.                                                *)
(***************************************************************************)

\* `if month < 1 || month > 12` with the lower test left out.
month_rejected_above(month) == month > 12

\* `if month < 1 || month > 12`
month_rejected(month) == month < 1 \/ month > 12

\* The months given with -m run from 1 - MonthMargin to 12 + MonthMargin,
\* the days given with -d from 0 (no -d: the month is listed) to MainDays.
MonthMargin == 3

MainDays == 3

MainSkies ==
    [ sun0 : {VernalEquinox}, ayan : {Ayan},
      moon0 : {NewMoonAnchor, NewMoonAnchor + SynTicks \div 2},
      anom0 : {NewMoonAnchor - AnomTicks \div 4} ]

InitMain ==
    /\ loc = NEW_DELHI
    /\ sky \in MainSkies
    /\ op = "main"
    /\ arg \in [ year : {2025}, month : (1 - MonthMargin)..(12 + MonthMargin),
                 day : 0..MainDays ]
    /\ ret = <<>>
    /\ moon = MoonState_new

\* main from `if month < 1 || month > 12` on: exit(1), or the panchang of
\* the day, or that of the month; `MDAYS[month as usize]` panics outside
\* the table.
Main ==
    /\ op = "main"
    /\ IF month_rejected(arg.month)
       THEN op' = "exit" /\ ret' = <<>>
       ELSE IF arg.day > 0
       THEN /\ op' = "print_day_panchang"
            /\ ret' = << PanchangDay(arg.year, arg.month, arg.day, loc) >>
       ELSE IF arg.month \notin DOMAIN MDAYS
       THEN op' = "panic" /\ ret' = <<>>
       ELSE /\ op' = "print_month_panchang"
            /\ ret' = [ d \in 1..days_in_month(arg.year, arg.month) |->
                          PanchangDay(arg.year, arg.month, d, loc) ]
    /\ UNCHANGED <<arg, moon, loc, sky>>

NextMain == Main

SpecMain == InitMain /\ [][NextMain]_vars

YearSpan == 4

YearMoments ==
    { KaliEpoch + k * 97 * TPD + TPD \div 3 : k \in -YearSpan..YearSpan }
    \cup { gregorian_to_jd(2025, 1, 1) + 2 * Hour,
           gregorian_to_jd(2023, 7, 18) + Hour }

InitYear ==
    /\ loc = NoLoc
    /\ sky = NoSky
    /\ op = "new"
    /\ arg \in [jd_ut : YearMoments, masa_num : 1..12]
    /\ ret = <<>>
    /\ moon = MoonState_new

\* `let year_saka = hindu_year_saka(eph, jd_rise, masa_num);
\*  let year_vikram = hindu_year_vikram(year_saka);`
HinduYearSaka ==
    /\ op = "new"
    /\ op' = "hindu_year_saka"
    /\ ret' = << hindu_year_saka(arg.jd_ut, arg.masa_num),
                 hindu_year_vikram(hindu_year_saka(arg.jd_ut, arg.masa_num)) >>
    /\ UNCHANGED <<arg, moon, loc, sky>>

NextYear == HinduYearSaka

SpecYear == InitYear /\ [][NextYear]_vars

(***************************************************************************)
(* C25.  For every JD and masa number in 1..12, hindu_year_saka returns    *)
(* floor((JD - 588465.5 + (4 - masa_num) * 30) / 365.25636) - 3179, the    *)
(* floor also when the quotient is negative, and the Vikram year is that   *)
(* value + 135.                                                            *)
(***************************************************************************)
C25_SakaYear ==
    op = "hindu_year_saka" =>
        LET a    == (arg.jd_ut - KaliEpoch) + (4 - arg.masa_num) * 30 * TPD
            kali == CHOOSE n \in (a \div YearTicks - 2)..(a \div YearTicks + 2) :
                        YearsWithin(n, a) /\ ~YearsWithin(n + 1, a)
        IN  /\ ret[1] = kali - 3179
            /\ ret[2] = ret[1] + 135

(***************************************************************************)
(* C26.  In every TithiInfo, jd_start is in [JD_rise - 2, JD_rise] and     *)
(* jd_end in [JD_rise, JD_rise + 2], so jd_start <= JD_rise <= jd_end.     *)
(* The start is the result of 50 bisection steps for the phase (t - 1) *   *)
(* 12 degrees and the end that of 50 steps for (t mod 30) * 12 degrees (0  *)
(* for t = 30); the steps keep the half where the signed residual goes     *)
(* from negative to non-negative, so that each boundary is within one grid *)
(* step of such a change.  JD_rise is the sunrise of the day, or its       *)
(* approximation when there is none.                                       *)
(***************************************************************************)
C26_TithiBrackets ==
    (op = "generate_month_panchang" /\ Len(ret) > 0) =>
        LET pd     == ret[Len(ret)]
            t      == pd.tithi.tithi_num
            rise   == IF pd.jd_sunrise <= 0
                      THEN gregorian_to_jd(pd.greg_year, pd.greg_month,
                                           pd.greg_day)
                             + TPD \div 2 - loc.utc_offset
                      ELSE pd.jd_sunrise
            first  == (t - 1) * 12 * FU
            last   == (t % 30) * 12 * FU
            Res(x, target) == SignedDiff(lunar_phase(x), target)
            Change(r, target) ==
                \E x \in {r - 1, r} :
                    Res(x, target) < 0 /\ Res(x + 1, target) >= 0
        IN  /\ rise - 2 * TPD <= pd.tithi.jd_start
            /\ pd.tithi.jd_start <= rise
            /\ rise <= pd.tithi.jd_end
            /\ pd.tithi.jd_end <= rise + 2 * TPD
            /\ pd.tithi.jd_start
                 = TithiBisect(rise - 2 * TPD, rise, first, 50)
            /\ pd.tithi.jd_end
                 = TithiBisect(rise, rise + 2 * TPD, last, 50)
            /\ (Res(rise - 2 * TPD, first) < 0 /\ Res(rise, first) >= 0)
                 => Change(pd.tithi.jd_start, first)
            /\ (Res(rise, last) < 0 /\ Res(rise + 2 * TPD, last) >= 0)
                 => Change(pd.tithi.jd_end, last)

\* A day in tithi 30, whose end is searched at 0 degrees, with both
\* boundaries strictly inside their brackets.
C26_AmavasyaBracket ==
    /\ op = "generate_month_panchang"
    /\ Len(ret) > 0
    /\ ret[Len(ret)].tithi.tithi_num = 30
    /\ ret[Len(ret)].jd_sunrise > 0
    /\ ret[Len(ret)].jd_sunrise - 2 * TPD < ret[Len(ret)].tithi.jd_start
    /\ ret[Len(ret)].tithi.jd_start < ret[Len(ret)].jd_sunrise
    /\ ret[Len(ret)].jd_sunrise < ret[Len(ret)].tithi.jd_end
    /\ ret[Len(ret)].tithi.jd_end < ret[Len(ret)].jd_sunrise + 2 * TPD

(***************************************************************************)
(* sankranti_jd as a function of its arguments: estimates from 20 days     *)
(* before to some 30 days after the middle of the month in which the sun   *)
(* enters each rashi.                                                      *)
(***************************************************************************)

\* The estimates tried are the 14th of the month plus k * 10 days, k from
\* -2 to ApproxSteps.
ApproxSteps == 3

SankrantiSkies ==
    [ sun0 : {VernalEquinox, VernalEquinox + TPD \div 3}, ayan : {Ayan},
      moon0 : {NewMoonAnchor}, anom0 : {NewMoonAnchor - AnomTicks \div 4} ]

InitSankranti ==
    /\ loc = NoLoc
    /\ sky \in SankrantiSkies
    /\ op = "new"
    /\ arg \in { [ jd_approx |->
                     gregorian_to_jd(2025, approx_greg_month(rashi), 14)
                       + k * 10 * TPD,
                   target_longitude |-> (rashi - 1) * 30 * FU ] :
                 rashi \in 1..12, k \in -2..ApproxSteps }
    /\ ret = <<>>
    /\ moon = MoonState_new

SankrantiJdFrom ==
    /\ op = "new"
    /\ op' = "sankranti_jd"
    /\ ret' = sankranti_jd(arg.jd_approx, arg.target_longitude)
    /\ UNCHANGED <<arg, moon, loc, sky>>

NextSankranti == SankrantiJdFrom

SpecSankranti == InitSankranti /\ [][NextSankranti]_vars

\* The signed residual of the sun at jd for the target of the search.
SankrantiResidual(jd) ==
    SignedDiff(solar_longitude_sidereal(jd), arg.target_longitude)

\* The lower bound of the bracket as the claim has it.
SankrantiLower ==
    IF SankrantiResidual(arg.jd_approx - 20 * TPD) >= 0
    THEN arg.jd_approx - 50 * TPD
    ELSE arg.jd_approx - 20 * TPD

\* The residual is negative at the lower bound, non-negative at the upper
\* bound and changes sign once in between: from the first JD of the grid
\* where it is non-negative it stays so.
ChangesSignOnce ==
    /\ SankrantiResidual(SankrantiLower) < 0
    /\ SankrantiResidual(arg.jd_approx + 20 * TPD) >= 0
    /\ \A y \in SankrantiLower..(arg.jd_approx + 20 * TPD - 1) :
         SankrantiResidual(y) >= 0 => SankrantiResidual(y + 1) >= 0

\* The change of sign is between x - 1 and x.
ChangeAt(x) == SankrantiResidual(x - 1) < 0 /\ SankrantiResidual(x) >= 0

\* w / 2^n, rounded down.
RECURSIVE Halved(_, _)
Halved(w, n) == IF n = 0 THEN w ELSE Halved(w \div 2, n - 1)

(***************************************************************************)
(* C27.  sankranti_jd(jd_approx, L) bisects for 50 steps between the upper *)
(* bound jd_approx + 20 and the lower bound jd_approx - 20, moved to       *)
(* jd_approx - 50 exactly when the signed residual at jd_approx - 20 is    *)
(* >= 0; the result is inside that bracket; and when the residual is       *)
(* negative at the lower bound, non-negative at the upper bound and        *)
(* changes sign once in between, the result is within one step of the JD   *)
(* grid of that change.                                                    *)
(***************************************************************************)
C27_SankrantiBracket ==
    op = "sankranti_jd" =>
        /\ ret = SankrantiBisect(SankrantiLower, arg.jd_approx + 20 * TPD,
                                 arg.target_longitude, 50)
        /\ SankrantiLower <= ret
        /\ ret <= arg.jd_approx + 20 * TPD
        /\ ChangesSignOnce => ChangeAt(ret) \/ ChangeAt(ret + 1)

\* The statement with the distance of the claim, the width of the bracket
\* divided by 2^50: the change of sign is between x - 1 and x for a JD x
\* that close to the result.
C27_WithinWidthOver2To50 ==
    (op = "sankranti_jd" /\ ChangesSignOnce) =>
        \E d \in 0..Halved(arg.jd_approx + 20 * TPD - SankrantiLower, 50) :
            ChangeAt(ret - d) \/ ChangeAt(ret + d)

\* The lower bound was moved back by 30 days and the result is the grid
\* point just before the one change of sign.
C27_MovedLowerBound ==
    /\ op = "sankranti_jd"
    /\ SankrantiLower = arg.jd_approx - 50 * TPD
    /\ ChangesSignOnce
    /\ ChangeAt(ret + 1)

(***************************************************************************)
(* C28.  Every nonzero multiplier in the tables LR, LRT and LRT2 refers to *)
(* a harmonic that sscc computed in the same call of lunar_longitude (6    *)
(* for D, 4 for each of the other three angles), so chewm reads no entry   *)
(* of ss and cc that is still zero and stays inside the 5 x 8 arrays.      *)
(***************************************************************************)
C28_HarmonicsComputed ==
    op = "lunar_longitude" =>
        \A table \in {LR, LRT, LRT2} :
            \A n \in 1..Len(table) :
                \A m \in 1..4 :
                    LET j == table[n][m]
                        k == IF j < 0 THEN -j ELSE j
                    IN  j # 0 =>
                            /\ k - 1 \in 0..7
                            /\ k <= (IF m = 1 THEN 6 ELSE 4)
                            /\ << moon.ss[m - 1][k - 1], moon.cc[m - 1][k - 1] >>
                                 # << 0, 0 >>

\* C29. A nonzero value returned by sunrise or sunset for a query moment is
\* never earlier than the moment by more than 0.0001 day, whatever the
\* longitude of the location and whatever its UTC offset.
C29_NeverBeforeQuery ==
    op \in {"sunrise", "sunset"} /\ ret # 0 => ret >= arg.jd_ut - RetryEps

\* gregorian_to_solar of the civil date after the date of the call in arg.
SolarOfNextDate == solar_on_jd(jd_of_date(arg.date) + TPD, loc, arg.cal_type)

\* The steps from one SolarDate to that of the next civil date: the next day
\* of the same month and year, or day 1 of the month after, the year one
\* more when that month is month 1 and the same otherwise.
SolarSuccessor(x, y) ==
    \/ /\ y.month = x.month
       /\ y.year = x.year
       /\ y.day = x.day + 1
    \/ /\ y.day = 1
       /\ y.month = (x.month % 12) + 1
       /\ y.year = (IF y.month = 1 THEN x.year + 1 ELSE x.year)

(***************************************************************************)
(* C30.  For every calendar and every pair of consecutive civil dates X    *)
(* and X+1, gregorian_to_solar of X+1 is the next day of the month and     *)
(* year of X, or day 1 of the next month (month 1 after month 12); the     *)
(* year is one more exactly when X+1 is day 1 of month 1.                  *)
(***************************************************************************)
C30_ConsecutiveSolarDates ==
    /\ op \in {"gregorian_to_solar", "gregorian_to_solar_day_before",
               "gregorian_to_solar_on_date"}
    /\ ret = gregorian_to_solar(arg.date[1], arg.date[2], arg.date[3], loc,
                                arg.cal_type)
    => SolarSuccessor(ret, SolarOfNextDate)

=============================================================================
